---- MODULE Spec2Model ----
(***************************************************************************)
(* Social-law robustness verification of unified-planning (karpase fork).  *)
(*                                                                         *)
(* The module models three things of the repository:                       *)
(*   - the compilation passes as pure operators that build a classical     *)
(*     planning problem (a set of ground actions, an initial state and a   *)
(*     goal) from a multi-agent problem: the single-agent projection and   *)
(*     the instantaneous robustness verifier;                              *)
(*   - the external planner as a search over the states of the problem it  *)
(*     is given: one step per applied action;                              *)
(*   - the SocialLaw orchestrator (is_single_agent_solvable,               *)
(*     is_multi_agent_robust, is_robust) driving the passes and the        *)
(*     planner.                                                            *)
(*                                                                         *)
(* A state of a planning problem is the set of its ground atoms that are   *)
(* true.  An atom is a tuple of strings, an action name a sequence of      *)
(* one-character strings (so that a name's last two characters are what    *)
(* Python's name[-2:] reads).                                              *)
(***************************************************************************)
EXTENDS Integers, Sequences, FiniteSets, TLC

VARIABLES
    pid,              \* the multi-agent problem the SocialLaw object was built on
    op,               \* the public operation in progress, or the last one that returned ("none" before the first)
    pc,               \* position: "idle", "sap" (planner on a projection), "rv" (planner on the verifier problem)
    k,                \* index in problem.agents of the agent whose projection is being solved
    prob,             \* the problem handed to planner.solve: [actions, init, goal]
    st,               \* the planner's current search state of prob: the set of true atoms
    last,             \* the action the planner applied last (NoAction before the first)
    scan,             \* is_robust's scan over the names of the actions applied so far
    hist,             \* what the applied actions were: first failure witness, witness names, who set which w-
    status,           \* the status of the planner's last answer
    counter_example,  \* SocialLaw._counter_example: "None" or "Plan"
    ret,              \* the value the last finished operation returned
    log,              \* what the operation in progress has done so far: planner calls, verifier built
    plan,             \* a plan whose action names a scan walks through (ScanSpec)
    pos,              \* the scan's position in plan: how many of its actions the loop has looked at
    transformer,      \* the class of the transformer whose get_rewritten_problem is called (CacheSpec)
    new_problem,      \* the transformer's _new_problem: the object it refers to and that object's content
    calls,            \* the outcomes of the calls of get_rewritten_problem so far, in order
    running,          \* the durative actions a temporal plan has started and not ended (DurSpec)
    agents,           \* the Agent objects constructed so far, each with the list its _goals refers to (AgentSpec)
    lists             \* the goal lists in memory, by reference: the content of each

vars == <<pid, op, pc, k, prob, st, last, scan, hist, status, counter_example, ret, log, plan, pos,
          transformer, new_problem, calls, running, agents, lists>>

\* the fields of a transformer and the record of its calls; the actions in
\* progress; the agents constructed apart from a problem
cachevars == <<transformer, new_problem, calls, running, agents, lists>>

-----------------------------------------------------------------------------
(* Names: sequences of characters *)

Digits == <<"0", "1", "2", "3", "4", "5", "6", "7", "8", "9">>

RECURSIVE Str(_)
Str(i) == IF i < 10 THEN <<Digits[i + 1]>> ELSE Str(i \div 10) \o <<Digits[(i % 10) + 1]>>

\* name[-2:]
Last2(name) == IF Len(name) <= 2 THEN name ELSE SubSeq(name, Len(name) - 1, Len(name))

-----------------------------------------------------------------------------
(* Expressions: a fact is a fluent application or its negation *)

Pos(atom) == [atom |-> atom, pos |-> TRUE]
Neg(atom) == [atom |-> atom, pos |-> FALSE]
Not(fact) == [atom |-> fact.atom, pos |-> ~fact.pos]
Eff(atom, val) == [atom |-> atom, val |-> val]

Range(s) == {s[i] : i \in DOMAIN s}

RECURSIVE Flatten(_)
Flatten(groups) == IF groups = <<>> THEN <<>> ELSE Head(groups) \o Flatten(Tail(groups))

-----------------------------------------------------------------------------
(* The multi-agent problem model *)

\* Agent(name, env, goals, agent_type_name); its object is Object(name, agent type)
Agent(obj, name, goals) ==
    [obj |-> obj, name |-> name, kind |-> "Agent", goals |-> goals, type |-> "agent"]

\* ExistingObjectAgent(obj, env, goals); its name is obj.name
ExistingObjectAgent(obj, name, goals) ==
    [obj |-> obj, name |-> name, kind |-> "ExistingObjectAgent", goals |-> goals, type |-> "agent"]

\* An instantaneous action: preconditions (each a fact or an And of facts),
\* preconditions_wait, effects and the agent it is bound to.
Action(name, agent, pre, wait, eff) ==
    [name |-> name, agent |-> agent, pre |-> pre, wait |-> wait, eff |-> eff]

\* Agent.__eq__ / ExistingObjectAgent.__eq__, as `a == b` evaluates them
AgentEq(a, b) ==
    IF a.kind = "ExistingObjectAgent"
    THEN b.kind = "ExistingObjectAgent" /\ a.obj = b.obj
    ELSE IF b.kind = "ExistingObjectAgent"
         THEN FALSE      \* the subclass's reflected __eq__ is tried first
         ELSE a.name = b.name /\ a.goals = b.goals /\ a.type = b.type

-----------------------------------------------------------------------------
(* Problems *)

f1 == <<"f1">>
nf1 == <<"nf1">>
f2 == <<"f2">>
nf2 == <<"nf2">>
f3 == <<"f3">>
nf3 == <<"nf3">>

ag1 == Agent("ag1", <<"a", "g", "1">>, <<Pos(nf1)>>)
ag2 == Agent("ag2", <<"a", "g", "2">>, <<Pos(f2)>>)

\* test_counterexample
Counterexample ==
    [agents |-> <<ag1, ag2>>,
     actions |-> {
        Action(<<"a", "1", "1">>, ag1, <<>>, <<Pos(f3)>>, <<Eff(f3, TRUE)>>),
        Action(<<"a", "1", "2">>, ag1, <<>>, <<>>,
               <<Eff(f1, FALSE), Eff(f3, FALSE), Eff(nf1, TRUE), Eff(nf3, TRUE)>>),
        Action(<<"a", "2", "1">>, ag2, <<>>, <<>>,
               <<Eff(f2, TRUE), Eff(f3, TRUE), Eff(nf2, FALSE), Eff(nf3, FALSE)>>),
        Action(<<"a", "2", "2">>, ag2, <<<<Pos(nf2)>>>>, <<>>,
               <<Eff(f3, FALSE), Eff(nf3, TRUE)>>)},
     init |-> {f1, nf2, f3},
     goals |-> {}]

fp == <<"p">>
fq == <<"q">>
fd1 == <<"d1">>
fd2 == <<"d2">>
fx == <<"x">>

r1 == Agent("r1", <<"r", "1">>, <<Pos(fd1)>>)
r2 == Agent("r2", <<"r", "2">>, <<Pos(fd2)>>)

\* r1 waits for p, which r2 clears and restores
WaitProblem ==
    [agents |-> <<r1, r2>>,
     actions |-> {
        Action(<<"g", "o">>, r1, <<>>, <<Pos(fp)>>, <<Eff(fd1, TRUE)>>),
        Action(<<"c", "l", "r">>, r2, <<>>, <<>>, <<Eff(fp, FALSE), Eff(fd2, TRUE)>>),
        Action(<<"s", "e", "t">>, r2, <<<<Neg(fp)>>>>, <<>>, <<Eff(fp, TRUE)>>)},
     init |-> {fp},
     goals |-> {Pos(fd1), Pos(fd2)}]

r3 == Agent("r3", <<"r", "3">>, <<Pos(fd2), Neg(fp)>>)

\* r1 needs p and q, an And precondition; r3 clears them, and has two goals
FailProblem ==
    [agents |-> <<r1, r3>>,
     actions |-> {
        Action(<<"g", "o">>, r1, <<<<Pos(fp), Pos(fq)>>>>, <<>>, <<Eff(fd1, TRUE)>>),
        Action(<<"c", "l", "r">>, r3, <<>>, <<>>, <<Eff(fp, FALSE)>>),
        Action(<<"o", "f", "f">>, r3, <<<<Pos(fq)>>>>, <<>>, <<Eff(fq, FALSE), Eff(fd2, TRUE)>>)},
     init |-> {fp, fq},
     goals |-> {Pos(fd1), Pos(fd2), Neg(fp)}]

r4 == Agent("r4", <<"r", "4">>, <<Pos(fx)>>)

\* no action of r4 achieves its goal x
UnreachableProblem ==
    [agents |-> <<r4, r2>>,
     actions |-> {
        Action(<<"g", "o">>, r4, <<>>, <<>>, <<Eff(fd1, TRUE)>>),
        Action(<<"c", "l", "r">>, r2, <<>>, <<>>, <<Eff(fp, FALSE), Eff(fd2, TRUE)>>)},
     init |-> {fp},
     goals |-> {Pos(fx), Pos(fd2)}]

\* r1 spoils q for r2 and then waits for p, which r2 has cleared; r2 needs q
PhantomProblem ==
    [agents |-> <<r1, r2>>,
     actions |-> {
        Action(<<"u", "s", "e">>, r1, <<>>, <<>>, <<Eff(fq, FALSE)>>),
        Action(<<"g", "o">>, r1, <<>>, <<Pos(fp)>>, <<Eff(fd1, TRUE)>>),
        Action(<<"c", "l", "r">>, r2, <<>>, <<>>, <<Eff(fp, FALSE)>>),
        Action(<<"f", "i", "n">>, r2, <<<<Pos(fq)>>>>, <<>>, <<Eff(fd2, TRUE)>>)},
     init |-> {fp, fq},
     goals |-> {Pos(fd1), Pos(fd2)}]

c1 == ExistingObjectAgent("c1", <<"c", "1">>, <<Pos(fd1)>>)
c2 == ExistingObjectAgent("c2", <<"c", "2">>, <<Pos(fd2)>>)
\* the agent an action is bound to in a lifted problem: ExistingObjectAgent(obj), no goals
Bound(agent) == ExistingObjectAgent(agent.obj, agent.name, <<>>)

\* agents that are existing objects; c1 both needs q and waits for p
MixedProblem ==
    [agents |-> <<c1, c2>>,
     actions |-> {
        Action(<<"m", "v">>, Bound(c1), <<<<Pos(fq)>>>>, <<Pos(fp)>>, <<Eff(fd1, TRUE), Eff(fq, FALSE)>>),
        Action(<<"c", "l", "r">>, Bound(c2), <<>>, <<>>, <<Eff(fp, FALSE)>>),
        Action(<<"o", "f", "f">>, Bound(c2), <<>>, <<>>, <<Eff(fq, FALSE)>>),
        Action(<<"s", "e", "t">>, Bound(c2), <<>>, <<>>, <<Eff(fp, TRUE)>>),
        Action(<<"f", "i", "n">>, Bound(c2), <<<<Neg(fd2)>>>>, <<>>, <<Eff(fd2, TRUE)>>)},
     init |-> {fp, fq},
     goals |-> {Pos(fd1), Pos(fd2)}]

\* a durative action: it has a duration, and conditions and effects by timing
DurativeAction(name, agent) ==
    [name |-> name, agent |-> agent, pre |-> <<>>, wait |-> <<>>, eff |-> <<>>, duration |-> "fixed"]

\* an agent whose object has another type than the other agents' objects
t1 == [ExistingObjectAgent("t1", <<"t", "1">>, <<Pos(fd2)>>) EXCEPT !.type = "truck"]

\* the agents' objects have two types
TwoTypesProblem ==
    [agents |-> <<c1, t1>>,
     actions |-> {
        Action(<<"m", "v">>, Bound(c1), <<>>, <<>>, <<Eff(fd1, TRUE)>>),
        Action(<<"f", "i", "n">>, [Bound(t1) EXCEPT !.type = "truck"], <<>>, <<>>, <<Eff(fd2, TRUE)>>)},
     init |-> {},
     goals |-> {Pos(fd1), Pos(fd2)}]

\* r1 has an instantaneous and a durative action
DurativeProblem ==
    [agents |-> <<r1, r2>>,
     actions |-> {
        Action(<<"g", "o">>, r1, <<>>, <<>>, <<Eff(fd1, TRUE)>>),
        DurativeAction(<<"h", "a", "u", "l">>, r1),
        Action(<<"c", "l", "r">>, r2, <<>>, <<>>, <<Eff(fd2, TRUE)>>)},
     init |-> {},
     goals |-> {Pos(fd1), Pos(fd2)}]

-----------------------------------------------------------------------------
(* The four-way intersection of test_social_law.py, ground: a ground instance of
   arrive or drive is listed when its static preconditions (start,
   traveldirection, connected, yieldsto) hold initially; the others are never
   applicable, in the projection or in any copy the verifier makes. *)

at(a, l) == <<"at", a, l>>
free(l) == <<"free", l>>
arrived(a) == <<"arrived", a>>
start(a, l) == <<"start", a, l>>
traveldirection(a, d) == <<"traveldirection", a, d>>
connected(l1, l2, d) == <<"connected", l1, l2, d>>
yieldsto(l1, ly) == <<"yieldsto", l1, ly>>

intersection_map(d) ==
    CASE d = "north" -> <<"south-ent", "cross-se", "cross-ne", "north-ex">>
      [] d = "south" -> <<"north-ent", "cross-nw", "cross-sw", "south-ex">>
      [] d = "west" -> <<"east-ent", "cross-ne", "cross-nw", "west-ex">>
      [] d = "east" -> <<"west-ent", "cross-sw", "cross-se", "east-ex">>

direction_names == {"north", "south", "west", "east"}
location_names == UNION {Range(intersection_map(d)) : d \in direction_names}
dummy_loc == "dummy"

\* add_car's arguments
Car(obj, name, startloc, endloc, cardirection) ==
    [obj |-> obj, name |-> name, startloc |-> startloc, endloc |-> endloc,
     cardirection |-> cardirection]

arrive(car, l) ==
    Action(<<"a", "r", "r", "i", "v", "e">>, ExistingObjectAgent(car.obj, car.name, <<>>),
           <<<<Pos(start(car.obj, l))>>, <<Neg(arrived(car.obj))>>, <<Pos(free(l))>>>>,
           <<>>,
           <<Eff(at(car.obj, l), TRUE), Eff(free(l), FALSE), Eff(arrived(car.obj), TRUE)>>)

\* drive after add_yields: yieldsto(l1, ly) is a precondition, free(ly) a waitfor
drive(car, l1, l2, d, ly, use_waiting) ==
    Action(<<"d", "r", "i", "v", "e">>, ExistingObjectAgent(car.obj, car.name, <<>>),
           <<<<Pos(at(car.obj, l1))>>>>
               \o (IF use_waiting THEN <<>> ELSE <<<<Pos(free(l2))>>>>)
               \o <<<<Pos(traveldirection(car.obj, d))>>, <<Pos(connected(l1, l2, d))>>,
                    <<Pos(yieldsto(l1, ly))>>>>,
           (IF use_waiting THEN <<Pos(free(l2))>> ELSE <<>>) \o <<Pos(free(ly))>>,
           <<Eff(at(car.obj, l2), TRUE), Eff(free(l2), FALSE),
             Eff(at(car.obj, l1), FALSE), Eff(free(l1), TRUE)>>)

\* yieldsto after add_yields(problem, yields_list)
Yields(yields_list) ==
    yields_list \cup {<<l1, dummy_loc>> : l1 \in
        {l \in location_names \cup {dummy_loc} : \A y \in yields_list : y[1] # l}}

\* create_basic_intersection_problem_interface, add_car for each car, add_yields
Intersection(cars, use_waiting, yields_list) ==
    [agents |-> [i \in DOMAIN cars |->
                    ExistingObjectAgent(cars[i].obj, cars[i].name,
                                        <<Pos(at(cars[i].obj, cars[i].endloc))>>)],
     actions |->
        {arrive(cars[i], cars[i].startloc) : i \in DOMAIN cars}
        \cup UNION {UNION {{drive(cars[i], intersection_map(cars[i].cardirection)[j],
                                  intersection_map(cars[i].cardirection)[j + 1],
                                  cars[i].cardirection, y[2], use_waiting)
                            : y \in {z \in Yields(yields_list) :
                                       z[1] = intersection_map(cars[i].cardirection)[j]}}
                           : j \in 1..3} : i \in DOMAIN cars},
     init |->
        {free(l) : l \in location_names \cup {dummy_loc}}
        \cup {start(cars[i].obj, cars[i].startloc) : i \in DOMAIN cars}
        \cup {traveldirection(cars[i].obj, cars[i].cardirection) : i \in DOMAIN cars}
        \cup UNION {{connected(intersection_map(d)[j], intersection_map(d)[j + 1], d)
                     : j \in 1..3} : d \in direction_names}
        \cup {yieldsto(y[1], y[2]) : y \in Yields(yields_list)},
     goals |-> {Pos(at(cars[i].obj, cars[i].endloc)) : i \in DOMAIN cars}]

\* test_intersection_problem_interface_lifted_4cars_deadlock
FourCarsDeadlock ==
    Intersection(<<Car("c1", <<"c", "1">>, "south-ent", "north-ex", "north"),
                   Car("c2", <<"c", "2">>, "north-ent", "south-ex", "south"),
                   Car("c3", <<"c", "3">>, "west-ent", "east-ex", "east"),
                   Car("c4", <<"c", "4">>, "east-ent", "west-ex", "west")>>,
                 TRUE, {})

-----------------------------------------------------------------------------
(* Classical planning semantics: what the planner searches *)

Holds(fact, s) == (fact.atom \in s) = fact.pos

Applicable(a, s) == \A f \in a.pre : Holds(f, s)

Apply(a, s) == (s \ {e.atom : e \in {x \in a.eff : ~x.val}}) \cup {e.atom : e \in {x \in a.eff : x.val}}

GoalReached(goal, s) == \A f \in goal : Holds(f, s)

NoAction == [name |-> <<>>, kind |-> "none", agent |-> "", orig |-> <<>>, idx |-> 0, pre |-> {}, eff |-> {}]

-----------------------------------------------------------------------------
(* RobustnessVerifier: the state space extension *)

failure == <<"failure">>
crash == <<"crash">>
act == <<"act">>
\* a bug: fin declared without its agent parameter
fin_shared(obj) == <<"fin", "all">>
fin(obj) == <<"fin", obj>>
waiting(obj) == <<"waiting", obj>>

get_global_version(fact) == [atom |-> <<"g">> \o fact.atom, pos |-> fact.pos]
\* a bug: one local copy for all the agents
get_local_version_shared(fact, agent) ==
    [atom |-> <<"l", "all">> \o fact.atom, pos |-> fact.pos]

get_local_version(fact, agent) == [atom |-> <<"l", agent>> \o fact.atom, pos |-> fact.pos]
get_waiting_version(fact) == [atom |-> <<"w">> \o fact.atom, pos |-> fact.pos]

\* the facts a list of preconditions holds, an And split into its arguments
Facts(preconditions) == Range(Flatten(preconditions))

\* real_preconds: action.preconditions with every And replaced by its arguments
real_preconds(action) == Flatten(action.pre)

\* a bug: the copy does not require act
create_action_copy_noact(action, suffix, kind, idx) ==
    [name |-> action.name \o suffix,
     kind |-> kind,
     agent |-> action.agent.obj,
     orig |-> action.name,
     idx |-> idx,
     pre |-> {get_local_version(f, action.agent.obj) : f \in Facts(action.pre) \cup Range(action.wait)},
     eff |-> {Eff(get_local_version(Pos(e.atom), action.agent.obj).atom, e.val) : e \in Range(action.eff)}]

\* a bug: the copy forgets the waitfor preconditions
create_action_copy_nowait(action, suffix, kind, idx) ==
    [name |-> action.name \o suffix,
     kind |-> kind,
     agent |-> action.agent.obj,
     orig |-> action.name,
     idx |-> idx,
     pre |-> {Pos(act)}
             \cup {get_local_version(f, action.agent.obj) : f \in Facts(action.pre)},
     eff |-> {Eff(get_local_version(Pos(e.atom), action.agent.obj).atom, e.val) : e \in Range(action.eff)}]

(* InstantaneousActionRobustnessVerifier.create_action_copy: requires act and the
   local version of every precondition and waitfor, has the local effects. *)
create_action_copy(action, suffix, kind, idx) ==
    [name |-> action.name \o suffix,
     kind |-> kind,
     agent |-> action.agent.obj,
     orig |-> action.name,
     idx |-> idx,
     pre |-> {Pos(act)}
             \cup {get_local_version(f, action.agent.obj) : f \in Facts(action.pre) \cup Range(action.wait)},
     eff |-> {Eff(get_local_version(Pos(e.atom), action.agent.obj).atom, e.val) : e \in Range(action.eff)}]

AddPre(a, facts) == [a EXCEPT !.pre = @ \cup facts]
AddEff(a, effects) == [a EXCEPT !.eff = @ \cup effects]

\* a bug: the success copy does not look at the waiting markers
SuccessCopy_nomarker(action) ==
    AddEff(
      AddPre(create_action_copy(action, <<"_", "s">>, "s", 0),
             {Neg(waiting(action.agent.obj)), Neg(crash)}
             \cup {get_global_version(f) : f \in Facts(action.pre) \cup Range(action.wait)}),
      {Eff(get_global_version(Pos(e.atom)).atom, e.val) : e \in Range(action.eff)})

\* a bug: the success copy does not require waiting(agent) to be false
SuccessCopy_whilewaiting(action) ==
    AddEff(
      AddPre(create_action_copy(action, <<"_", "s">>, "s", 0),
             {Neg(crash)}
             \cup {Not(get_waiting_version(Pos(e.atom))) : e \in {x \in Range(action.eff) : x.val}}
             \cup {get_global_version(f) : f \in Facts(action.pre) \cup Range(action.wait)}),
      {Eff(get_global_version(Pos(e.atom)).atom, e.val) : e \in Range(action.eff)})

\* a bug: the success copy does not require crash to be false
SuccessCopy_aftercrash(action) ==
    AddEff(
      AddPre(create_action_copy(action, <<"_", "s">>, "s", 0),
             {Neg(waiting(action.agent.obj))}
             \cup {Not(get_waiting_version(Pos(e.atom))) : e \in {x \in Range(action.eff) : x.val}}
             \cup {get_global_version(f) : f \in Facts(action.pre) \cup Range(action.wait)}),
      {Eff(get_global_version(Pos(e.atom)).atom, e.val) : e \in Range(action.eff)})

\* a bug: the success copy looks at the markers of the facts it makes false
SuccessCopy_wrongmarker(action) ==
    AddEff(
      AddPre(create_action_copy(action, <<"_", "s">>, "s", 0),
             {Neg(waiting(action.agent.obj)), Neg(crash)}
             \cup {Not(get_waiting_version(Pos(e.atom))) : e \in {x \in Range(action.eff) : ~x.val}}
             \cup {get_global_version(f) : f \in Facts(action.pre) \cup Range(action.wait)}),
      {Eff(get_global_version(Pos(e.atom)).atom, e.val) : e \in Range(action.eff)})

\* Success version - affects globals same way as original
SuccessCopy(action) ==
    AddEff(
      AddPre(create_action_copy(action, <<"_", "s">>, "s", 0),
             {Neg(waiting(action.agent.obj)), Neg(crash)}
             \cup {Not(get_waiting_version(Pos(e.atom))) : e \in {x \in Range(action.eff) : x.val}}
             \cup {get_global_version(f) : f \in Facts(action.pre) \cup Range(action.wait)}),
      {Eff(get_global_version(Pos(e.atom)).atom, e.val) : e \in Range(action.eff)})

\* a bug: the fail copy also applies the action's effects to the global facts
FailCopy_global(action, i) ==
    AddEff(
      AddPre(create_action_copy(action, <<"_", "f", "_">> \o Str(i - 1), "f", i),
             {Neg(waiting(action.agent.obj)), Neg(crash)}
             \cup {get_global_version(pre) : pre \in Range(action.wait)}
             \cup {Not(get_global_version(real_preconds(action)[i]))}),
      {Eff(failure, TRUE), Eff(crash, TRUE)}
      \cup {Eff(get_global_version(Pos(e.atom)).atom, e.val) : e \in Range(action.eff)})

\* a bug: the fail copy does not require the waitfor conditions of the globals
FailCopy_nowaitfor(action, i) ==
    AddEff(
      AddPre(create_action_copy(action, <<"_", "f", "_">> \o Str(i - 1), "f", i),
             {Neg(waiting(action.agent.obj)), Neg(crash)}
             \cup {Not(get_global_version(real_preconds(action)[i]))}),
      {Eff(failure, TRUE), Eff(crash, TRUE)})

\* Fail version, one per real precondition (i counts from 1 here, the name from 0)
FailCopy(action, i) ==
    AddEff(
      AddPre(create_action_copy(action, <<"_", "f", "_">> \o Str(i - 1), "f", i),
             {Neg(waiting(action.agent.obj)), Neg(crash)}
             \cup {get_global_version(pre) : pre \in Range(action.wait)}
             \cup {Not(get_global_version(real_preconds(action)[i]))}),
      {Eff(failure, TRUE), Eff(crash, TRUE)})

\* a bug: the wait copy does not require the awaited fact to be false
WaitCopy_anytime(action, i) ==
    AddEff(
      AddPre(create_action_copy(action, <<"_", "w", "_">> \o Str(i - 1), "w", i),
             {Neg(crash), Neg(waiting(action.agent.obj))}),
      {Eff(get_waiting_version(action.wait[i]).atom, TRUE),
       Eff(waiting(action.agent.obj), TRUE),
       Eff(failure, TRUE)})

\* a bug: the wait copy also sets crash
WaitCopy_crash(action, i) ==
    AddEff(
      AddPre(create_action_copy(action, <<"_", "w", "_">> \o Str(i - 1), "w", i),
             {Neg(crash), Neg(waiting(action.agent.obj)), Not(get_global_version(action.wait[i]))}),
      {Eff(get_waiting_version(action.wait[i]).atom, TRUE),
       Eff(waiting(action.agent.obj), TRUE),
       Eff(failure, TRUE),
       Eff(crash, TRUE)})

\* Wait version, one per waitfor precondition
WaitCopy(action, i) ==
    AddEff(
      AddPre(create_action_copy(action, <<"_", "w", "_">> \o Str(i - 1), "w", i),
             {Neg(crash), Neg(waiting(action.agent.obj)), Not(get_global_version(action.wait[i]))}),
      {Eff(get_waiting_version(action.wait[i]).atom, TRUE),
       Eff(waiting(action.agent.obj), TRUE),
       Eff(failure, TRUE)})

\* a bug: the phantom copy after a crash repairs the crash
PhantomCrashCopy_recover(action) ==
    AddEff(AddPre(create_action_copy(action, <<"_", "p", "c">>, "pc", 0), {Pos(crash)}),
           {Eff(crash, FALSE)})

\* a bug: the phantom copy after a crash does not require act
PhantomCrashCopy_noact(action) ==
    [create_action_copy(action, <<"_", "p", "c">>, "pc", 0) EXCEPT
        !.pre = (@ \ {Pos(act)}) \cup {Pos(crash)}]

\* Phantom versions
PhantomCrashCopy(action) ==
    AddPre(create_action_copy(action, <<"_", "p", "c">>, "pc", 0), {Pos(crash)})

\* a bug: the phantom copy of a waiting agent takes back the failure
PhantomWaitCopy_forgive(action) ==
    AddEff(AddPre(create_action_copy(action, <<"_", "p", "w">>, "pw", 0),
                  {Pos(waiting(action.agent.obj))}),
           {Eff(failure, FALSE)})

PhantomWaitCopy(action) ==
    AddPre(create_action_copy(action, <<"_", "p", "w">>, "pw", 0), {Pos(waiting(action.agent.obj))})

\* a bug: end_s leaves act alone
end_s_keepact(agent) ==
    [name |-> <<"e", "n", "d", "_", "s", "_">> \o agent.name,
     kind |-> "end_s",
     agent |-> agent.obj,
     orig |-> <<>>,
     idx |-> 0,
     pre |-> {Neg(fin(agent.obj))}
             \cup {get_global_version(goal) : goal \in Range(agent.goals)}
             \cup {get_local_version(goal, agent.obj) : goal \in Range(agent.goals)},
     eff |-> {Eff(fin(agent.obj), TRUE)}]

\* a bug: end_s does not require fin to be false
end_s_again(agent) ==
    [name |-> <<"e", "n", "d", "_", "s", "_">> \o agent.name,
     kind |-> "end_s",
     agent |-> agent.obj,
     orig |-> <<>>,
     idx |-> 0,
     pre |-> {get_global_version(goal) : goal \in Range(agent.goals)}
             \cup {get_local_version(goal, agent.obj) : goal \in Range(agent.goals)},
     eff |-> {Eff(fin(agent.obj), TRUE), Eff(act, FALSE)}]

end_s(agent) ==
    [name |-> <<"e", "n", "d", "_", "s", "_">> \o agent.name,
     kind |-> "end_s",
     agent |-> agent.obj,
     orig |-> <<>>,
     idx |-> 0,
     pre |-> {Neg(fin(agent.obj))}
             \cup {get_global_version(goal) : goal \in Range(agent.goals)}
             \cup {get_local_version(goal, agent.obj) : goal \in Range(agent.goals)},
     eff |-> {Eff(fin(agent.obj), TRUE), Eff(act, FALSE)}]

\* a bug: end_f of goal i does not look at the global value of goal i
end_f_anyway(agent, i) ==
    [name |-> <<"e", "n", "d", "_", "f", "_">> \o agent.name \o <<"_">> \o Str(i - 1),
     kind |-> "end_f",
     agent |-> agent.obj,
     orig |-> <<>>,
     idx |-> i,
     pre |-> {Neg(fin(agent.obj))}
             \cup {get_local_version(g, agent.obj) : g \in Range(agent.goals)},
     eff |-> {Eff(fin(agent.obj), TRUE), Eff(act, FALSE), Eff(failure, TRUE)}]

end_f(agent, i) ==
    [name |-> <<"e", "n", "d", "_", "f", "_">> \o agent.name \o <<"_">> \o Str(i - 1),
     kind |-> "end_f",
     agent |-> agent.obj,
     orig |-> <<>>,
     idx |-> i,
     pre |-> {Neg(fin(agent.obj)), Not(get_global_version(agent.goals[i]))}
             \cup {get_local_version(g, agent.obj) : g \in Range(agent.goals)},
     eff |-> {Eff(fin(agent.obj), TRUE), Eff(act, FALSE), Eff(failure, TRUE)}]

\* the actions of InstantaneousActionRobustnessVerifier.get_rewritten_problem
RVActions(problem) ==
    {end_s(agent) : agent \in Range(problem.agents)}
    \cup UNION {{end_f(agent, i) : i \in DOMAIN agent.goals} : agent \in Range(problem.agents)}
    \cup {SuccessCopy(action) : action \in problem.actions}
    \cup UNION {{FailCopy(action, i) : i \in DOMAIN real_preconds(action)} : action \in problem.actions}
    \cup UNION {{WaitCopy(action, i) : i \in DOMAIN action.wait} : action \in problem.actions}
    \cup {PhantomCrashCopy(action) : action \in problem.actions}
    \cup {PhantomWaitCopy(action) : action \in problem.actions}

(* Problem.initial_values: the value of every ground fluent, the fluent's
   default where no value was set, as the set of the ground fluents that are true *)
initial_values(problem) == problem.init

\* a bug: the initial values are copied to the l- facts of the first agent only
RVInit_firstagent(problem) ==
    {get_global_version(Pos(var)).atom : var \in initial_values(problem)}
    \cup {get_local_version(Pos(var), problem.agents[1].obj).atom : var \in initial_values(problem)}
    \cup {act}

\* Initial state: every initial value copied to g- and to l- of every agent; act defaults to true
RVInit(problem) ==
    {get_global_version(Pos(var)).atom : var \in initial_values(problem)}
    \cup {get_local_version(Pos(var), agent.obj).atom : var \in initial_values(problem), agent \in Range(problem.agents)}
    \cup {act}

\* a bug: the goal does not ask for failure
RVGoal_nofailure(problem) ==
    {Pos(fin(agent.obj)) : agent \in Range(problem.agents)}

\* Goal
RVGoal(problem) == {Pos(failure)} \cup {Pos(fin(agent.obj)) : agent \in Range(problem.agents)}

get_rewritten_problem_rv(problem) ==
    [actions |-> RVActions(problem), init |-> RVInit(problem), goal |-> RVGoal(problem)]

-----------------------------------------------------------------------------
(* SingleAgentProjection.get_rewritten_problem *)

active_agent(obj) == <<"active-agent", obj>>

\* a bug: no action is filtered out
SAPKept_all(problem, agent) == problem.actions

\* the actions the projection keeps
SAPKept(problem, agent) ==
    {action \in problem.actions :
        AgentEq(action.agent, agent) \/ action.agent.kind = "ExistingObjectAgent"}

\* a bug: the action does not require active-agent of its agent
SAPAction_noactive(action) ==
    [name |-> action.name,
     kind |-> "sap",
     agent |-> action.agent.obj,
     orig |-> action.name,
     idx |-> 0,
     pre |-> Range(real_preconds(action)) \cup Range(action.wait),
     wait |-> <<>>,
     eff |-> Range(action.eff)]

\* preconditions, then waitfor preconditions, then active-agent of the action's agent
\* a bug: the waitfor preconditions are cleared without being added as preconditions
SAPAction_dropwait(action) ==
    [name |-> action.name,
     kind |-> "sap",
     agent |-> action.agent.obj,
     orig |-> action.name,
     idx |-> 0,
     pre |-> Range(real_preconds(action)) \cup {Pos(active_agent(action.agent.obj))},
     wait |-> <<>>,
     eff |-> Range(action.eff)]

SAPAction(action) ==
    [name |-> action.name,
     kind |-> "sap",
     agent |-> action.agent.obj,
     orig |-> action.name,
     idx |-> 0,
     pre |-> Range(real_preconds(action)) \cup Range(action.wait) \cup {Pos(active_agent(action.agent.obj))},
     wait |-> <<>>,
     eff |-> Range(action.eff)]

\* a bug: the goals of the cloned problem are not cleared
get_rewritten_problem_sap_keepgoals(problem, agent) ==
    [actions |-> {SAPAction(action) : action \in SAPKept(problem, agent)},
     init |-> problem.init \cup {active_agent(agent.obj)},
     goal |-> problem.goals \cup Range(agent.goals)]

\* the clone's goals are cleared, then the agent's goals are added
get_rewritten_problem_sap(problem, agent) ==
    [actions |-> {SAPAction(action) : action \in SAPKept(problem, agent)},
     init |-> problem.init \cup {active_agent(agent.obj)},
     goal |-> (problem.goals \ problem.goals) \cup Range(agent.goals)]

-----------------------------------------------------------------------------
(* The planner: a sound and complete search, which may also give up *)

RECURSIVE Reach(_, _, _)
Reach(actions, frontier, visited) ==
    IF frontier = {} THEN visited
    ELSE LET succ == UNION {{Apply(a, s) : a \in {x \in actions : Applicable(x, s)}} : s \in frontier}
             new == succ \ visited
         IN Reach(actions, new, visited \cup new)

Solvable(problem) ==
    \E s \in Reach(problem.actions, {problem.init}, {problem.init}) : GoalReached(problem.goal, s)

POSITIVE_OUTCOMES == {"SOLVED_SATISFICING", "SOLVED_OPTIMALLY"}
GaveUp == {"UNSOLVABLE_INCOMPLETELY", "TIMEOUT", "ERROR"}
\* the answers of a planner that ran to the end
Definitive == POSITIVE_OUTCOMES \cup {"UNSOLVABLE_PROVEN"}

-----------------------------------------------------------------------------
(* SocialLaw.is_robust: the scan of the counterexample's action names *)

\* a bug: the scan looks at the last character only
ScanStep_lastchar(sc, name) ==
    IF sc # "none" THEN sc
    ELSE IF name[Len(name)] = "f" THEN "f"
    ELSE IF name[Len(name)] = "w" THEN "w"
    ELSE "none"

\* one turn of the loop over counter_example.actions: "none" goes on to the next action
ScanStep(sc, name) ==
    IF sc # "none" THEN sc
    ELSE IF Last2(name) = <<"_", "f">> THEN "f"
    ELSE IF Last2(name) = <<"_", "w">> THEN "w"
    ELSE "none"

\* what is_robust returns once the scan has ended
Classify(sc) ==
    IF sc = "f" THEN "NON_ROBUST_MULTI_AGENT_FAIL"
    ELSE IF sc = "w" THEN "NON_ROBUST_MULTI_AGENT_DEADLOCK"
    ELSE "NON_ROBUST_MULTI_AGENT_FAIL"

-----------------------------------------------------------------------------
(* The problems SocialLaw objects are built on *)

Pids == {"counterexample", "wait", "fail", "unreachable", "mixed", "phantom"}

MAProblem(id) ==
    CASE id = "counterexample" -> Counterexample
      [] id = "wait" -> WaitProblem
      [] id = "fail" -> FailProblem
      [] id = "unreachable" -> UnreachableProblem
      [] id = "mixed" -> MixedProblem
      [] id = "phantom" -> PhantomProblem
      [] id = "4cars_deadlock" -> FourCarsDeadlock
      [] id = "two_types" -> TwoTypesProblem
      [] id = "durative" -> DurativeProblem

Problem == MAProblem(pid)

\* the complete planner's verdicts
SolvableSAP == [id \in Pids |-> [i \in DOMAIN MAProblem(id).agents |->
                   Solvable(get_rewritten_problem_sap(MAProblem(id), MAProblem(id).agents[i]))]]
SolvableRV == [id \in Pids |-> Solvable(get_rewritten_problem_rv(MAProblem(id)))]

-----------------------------------------------------------------------------
(* History of a search: what the properties below are stated about *)

Contains(name, sub) ==
    \E j \in 1..(Len(name) - Len(sub) + 1) : SubSeq(name, j, j + Len(sub) - 1) = sub

\* a name that ends with _f or _w, or is a _f_* or _w_* variant
HasWitnessName(name) ==
    \/ Last2(name) \in {<<"_", "f">>, <<"_", "w">>}
    \/ Contains(name, <<"_", "f", "_">>)
    \/ Contains(name, <<"_", "w", "_">>)

NoHist == [first |-> "none", named |-> FALSE, wby |-> {}]

HistStep(h, a) ==
    [first |-> IF h.first = "none" /\ a.kind \in {"f", "w"} THEN a.kind ELSE h.first,
     named |-> h.named \/ HasWitnessName(a.name),
     wby |-> IF a.kind = "w"
             THEN h.wby \cup {<<a.agent, e.atom>> : e \in {x \in a.eff : x.atom[1] = "w"}}
             ELSE h.wby]

NoProblem == [actions |-> {}, init |-> {}, goal |-> {}]

\* _new_problem = None
NoObject == [ref |-> "None", fluents |-> {}, problem |-> NoProblem]
NoLog == [sap |-> 0, sapneg |-> FALSE, rvbuilt |-> FALSE, rv |-> 0, had |-> FALSE]

-----------------------------------------------------------------------------
(* State machine *)

Init ==
    /\ pid \in Pids
    /\ op = "none"
    /\ pc = "idle"
    /\ k = 0
    /\ prob = NoProblem
    /\ st = {}
    /\ last = NoAction
    /\ scan = "none"
    /\ hist = NoHist
    /\ status = "none"
    /\ counter_example = "None"
    /\ ret = "none"
    /\ log = NoLog
    /\ plan = <<>>
    /\ pos = 0
    /\ transformer = "none"
    /\ new_problem = NoObject
    /\ calls = <<>>
    /\ running = {}
    /\ agents = <<>>
    /\ lists = <<>>

\* a bug: the loop takes the agents from the last one
StartSap_reverse(i) ==
    /\ k' = Len(Problem.agents) + 1 - i
    /\ prob' = get_rewritten_problem_sap(Problem, Problem.agents[k'])
    /\ st' = prob'.init
    /\ pc' = "sap"
    /\ last' = NoAction
    /\ scan' = "none"
    /\ hist' = NoHist

\* sap = SingleAgentProjection(problem, agent); planner.solve(sap.get_rewritten_problem())
StartSap(i) ==
    /\ k' = i
    /\ prob' = get_rewritten_problem_sap(Problem, Problem.agents[i])
    /\ st' = prob'.init
    /\ pc' = "sap"
    /\ last' = NoAction
    /\ scan' = "none"
    /\ hist' = NoHist

\* a bug: the counterexample of an earlier call is kept
StartRv_keep ==
    /\ counter_example' = counter_example
    /\ k' = 0
    /\ prob' = get_rewritten_problem_rv(Problem)
    /\ st' = prob'.init
    /\ pc' = "rv"
    /\ last' = NoAction
    /\ scan' = "none"
    /\ hist' = NoHist

\* is_multi_agent_robust up to planner.solve(rv_problem)
StartRv ==
    /\ counter_example' = "None"
    /\ k' = 0
    /\ prob' = get_rewritten_problem_rv(Problem)
    /\ st' = prob'.init
    /\ pc' = "rv"
    /\ last' = NoAction
    /\ scan' = "none"
    /\ hist' = NoHist

\* op keeps the name of the operation that returned
Return(value) ==
    /\ ret' = value
    /\ pc' = "idle"
    /\ UNCHANGED <<op, k, prob>>

\* the planner's search ends without a plan
Discard ==
    /\ st' = {}
    /\ last' = NoAction
    /\ scan' = "none"
    /\ hist' = NoHist

Call_is_robust ==
    /\ pc = "idle"
    /\ op' = "is_robust"
    /\ StartSap(1)
    /\ log' = [NoLog EXCEPT !.sap = 1]
    /\ status' = "none"
    /\ ret' = "none"
    /\ UNCHANGED <<pid, counter_example, plan, pos, cachevars>>

Call_is_single_agent_solvable ==
    /\ pc = "idle"
    /\ op' = "is_single_agent_solvable"
    /\ StartSap(1)
    /\ log' = [NoLog EXCEPT !.sap = 1]
    /\ status' = "none"
    /\ ret' = "none"
    /\ UNCHANGED <<pid, counter_example, plan, pos, cachevars>>

Call_is_multi_agent_robust ==
    /\ pc = "idle"
    /\ op' = "is_multi_agent_robust"
    /\ StartRv
    /\ log' = [NoLog EXCEPT !.rvbuilt = TRUE, !.rv = 1, !.had = (counter_example = "Plan")]
    /\ status' = "none"
    /\ ret' = "none"
    /\ UNCHANGED <<pid, plan, pos, cachevars>>

\* the planner applies one more action of the projection
SapStep ==
    /\ pc = "sap"
    /\ \E a \in prob.actions :
        /\ Applicable(a, st)
        /\ st' = Apply(a, st)
        /\ last' = a
    /\ UNCHANGED <<pid, op, pc, k, prob, scan, hist, status, counter_example, ret, log, plan, pos, cachevars>>

\* a bug: is_single_agent_solvable returns True after the first agent
SapPositive_first(s) ==
    /\ status' = s
    /\ IF op = "is_single_agent_solvable"
       THEN /\ Return("True")
            /\ UNCHANGED <<st, last, scan, hist, counter_example, log>>
       ELSE /\ StartRv
            /\ log' = [log EXCEPT !.rvbuilt = TRUE, !.rv = @ + 1]
            /\ UNCHANGED <<op, ret>>
    /\ UNCHANGED <<pid, plan, pos, cachevars>>

\* is_single_agent_solvable after a positive answer: the next agent, or return True
SapPositive(s) ==
    /\ status' = s
    /\ IF k < Len(Problem.agents)
       THEN /\ StartSap(k + 1)
            /\ log' = [log EXCEPT !.sap = @ + 1]
            /\ UNCHANGED <<op, counter_example, ret>>
       ELSE IF op = "is_single_agent_solvable"
            THEN /\ Return("True")
                 /\ UNCHANGED <<st, last, scan, hist, counter_example, log>>
            ELSE /\ StartRv
                 /\ log' = [log EXCEPT !.rvbuilt = TRUE, !.rv = @ + 1]
                 /\ UNCHANGED <<op, ret>>
    /\ UNCHANGED <<pid, plan, pos, cachevars>>

\* a bug: is_single_agent_solvable takes every answer for a positive one
SapNegative_ignored(s) ==
    /\ status' = s
    /\ IF k < Len(Problem.agents)
       THEN /\ StartSap(k + 1)
            /\ log' = [log EXCEPT !.sap = @ + 1]
            /\ UNCHANGED <<op, counter_example, ret>>
       ELSE IF op = "is_single_agent_solvable"
            THEN /\ Return("True")
                 /\ UNCHANGED <<st, last, scan, hist, counter_example, log>>
            ELSE /\ StartRv
                 /\ log' = [log EXCEPT !.rvbuilt = TRUE, !.rv = @ + 1]
                 /\ UNCHANGED <<op, ret>>
    /\ UNCHANGED <<pid, plan, pos, cachevars>>

\* is_single_agent_solvable returns False at the first answer that is not positive
SapNegative(s) ==
    /\ status' = s
    /\ log' = [log EXCEPT !.sapneg = TRUE]
    /\ Discard
    /\ Return(IF op = "is_single_agent_solvable" THEN "False" ELSE "NON_ROBUST_SINGLE_AGENT")
    /\ UNCHANGED <<pid, counter_example, plan, pos, cachevars>>

SapSolved ==
    /\ pc = "sap"
    /\ GoalReached(prob.goal, st)
    /\ \E s \in POSITIVE_OUTCOMES : SapPositive(s)

SapUnsolvable ==
    /\ pc = "sap"
    /\ ~SolvableSAP[pid][k]
    /\ SapNegative("UNSOLVABLE_PROVEN")

SapGaveUp ==
    /\ pc = "sap"
    /\ \E s \in GaveUp : SapNegative(s)

\* the planner applies action a of the verifier problem
Take(a) ==
    /\ Applicable(a, st)
    /\ st' = Apply(a, st)
    /\ last' = a
    /\ scan' = ScanStep(scan, a.name)
    /\ hist' = HistStep(hist, a)
    /\ UNCHANGED <<pid, op, pc, k, prob, status, counter_example, ret, log, plan, pos, cachevars>>

Success == pc = "rv" /\ \E a \in prob.actions : a.kind = "s" /\ Take(a)

Fail == pc = "rv" /\ \E a \in prob.actions : a.kind = "f" /\ Take(a)

Wait == pc = "rv" /\ \E a \in prob.actions : a.kind = "w" /\ Take(a)

PhantomCrash == pc = "rv" /\ \E a \in prob.actions : a.kind = "pc" /\ Take(a)

PhantomWait == pc = "rv" /\ \E a \in prob.actions : a.kind = "pw" /\ Take(a)

EndSuccess == pc = "rv" /\ \E a \in prob.actions : a.kind = "end_s" /\ Take(a)

EndFail == pc = "rv" /\ \E a \in prob.actions : a.kind = "end_f" /\ Take(a)

\* is_multi_agent_robust stores the plan and returns False; is_robust classifies it
RvPositive(s) ==
    /\ status' = s
    /\ counter_example' = "Plan"
    /\ Return(IF op = "is_robust" THEN Classify(scan) ELSE "False")
    /\ UNCHANGED <<st, last, scan, hist>>
    /\ UNCHANGED <<pid, log, plan, pos, cachevars>>

\* is_multi_agent_robust returns True
RvNegative(s) ==
    /\ status' = s
    /\ Discard
    /\ Return(IF op = "is_robust" THEN "ROBUST_RATIONAL" ELSE "True")
    /\ UNCHANGED <<pid, counter_example, log, plan, pos, cachevars>>

RvSolved ==
    /\ pc = "rv"
    /\ GoalReached(prob.goal, st)
    /\ \E s \in POSITIVE_OUTCOMES : RvPositive(s)

RvUnsolvable ==
    /\ pc = "rv"
    /\ ~SolvableRV[pid]
    /\ RvNegative("UNSOLVABLE_PROVEN")

RvGaveUp ==
    /\ pc = "rv"
    /\ \E s \in GaveUp : RvNegative(s)

Next ==
    \/ Call_is_robust
    \/ Call_is_single_agent_solvable
    \/ Call_is_multi_agent_robust
    \/ SapStep
    \/ SapSolved
    \/ SapUnsolvable
    \/ SapGaveUp
    \/ Success
    \/ Fail
    \/ Wait
    \/ PhantomCrash
    \/ PhantomWait
    \/ EndSuccess
    \/ EndFail
    \/ RvSolved
    \/ RvUnsolvable
    \/ RvGaveUp

Spec == Init /\ [][Next]_vars

-----------------------------------------------------------------------------
(* is_robust on the four-car intersection, as the test calls it.  No fail copy
   is ever applicable there and every answer "unsolvable" would be unsound, so
   the actions of Next that cannot fire are left out. *)

InitFourCars ==
    /\ pid = "4cars_deadlock"
    /\ op = "none"
    /\ pc = "idle"
    /\ k = 0
    /\ prob = NoProblem
    /\ st = {}
    /\ last = NoAction
    /\ scan = "none"
    /\ hist = NoHist
    /\ status = "none"
    /\ counter_example = "None"
    /\ ret = "none"
    /\ log = NoLog
    /\ plan = <<>>
    /\ pos = 0
    /\ transformer = "none"
    /\ new_problem = NoObject
    /\ calls = <<>>
    /\ running = {}
    /\ agents = <<>>
    /\ lists = <<>>

NextFourCars ==
    \/ Call_is_robust
    \/ SapStep
    \/ SapSolved
    \/ SapGaveUp
    \/ Success
    \/ Wait
    \/ PhantomWait
    \/ EndSuccess
    \/ EndFail
    \/ RvSolved
    \/ RvGaveUp

SpecFourCars == InitFourCars /\ [][NextFourCars]_vars

-----------------------------------------------------------------------------
(* The scan of is_robust on its own, over every plan of at most MaxPlanLen
   action names drawn from ScanNames *)

MaxPlanLen == 3

ScanNames ==
    {<<"g", "o", "_", "s">>,
     <<"g", "o", "_", "f", "_", "0">>,
     <<"g", "o", "_", "w", "_", "0">>,
     <<"e", "n", "d", "_", "s", "_", "r", "_", "f">>,
     <<"e", "n", "d", "_", "s", "_", "r", "_", "w">>,
     <<"_", "f">>,
     <<"_", "w">>,
     <<"w">>}

Plans == UNION {[1..n -> ScanNames] : n \in 0..MaxPlanLen}

ScanInit ==
    /\ pid = "none"
    /\ op = "is_robust"
    /\ pc = "scan"
    /\ k = 0
    /\ prob = NoProblem
    /\ st = {}
    /\ last = NoAction
    /\ scan = "none"
    /\ hist = NoHist
    /\ status = "SOLVED_SATISFICING"
    /\ counter_example = "Plan"
    /\ ret = "none"
    /\ log = NoLog
    /\ plan \in Plans
    /\ pos = 0
    /\ transformer = "none"
    /\ new_problem = NoObject
    /\ calls = <<>>
    /\ running = {}
    /\ agents = <<>>
    /\ lists = <<>>

\* for action_occurence in self.counter_example.actions: no return yet
ScanLoop ==
    /\ pc = "scan"
    /\ scan = "none"
    /\ pos < Len(plan)
    /\ pos' = pos + 1
    /\ scan' = ScanStep(scan, plan[pos + 1])
    /\ UNCHANGED <<pid, op, pc, k, prob, st, last, hist, status, counter_example, ret, log, plan, cachevars>>

\* a return inside the loop, or the return after it
ScanReturn ==
    /\ pc = "scan"
    /\ scan # "none" \/ pos = Len(plan)
    /\ ret' = Classify(scan)
    /\ pc' = "idle"
    /\ UNCHANGED <<pid, op, k, prob, st, last, scan, hist, status, counter_example, log, plan, pos, cachevars>>

ScanNext == ScanLoop \/ ScanReturn

ScanSpec == ScanInit /\ [][ScanNext]_vars

-----------------------------------------------------------------------------
(* Properties *)

\* is_robust has returned
Returned == pc = "idle" /\ op = "is_robust"

\* is_multi_agent_robust has stored a plan, inside is_robust or called directly
PlanRecorded ==
    /\ pc = "idle"
    /\ op \in {"is_robust", "is_multi_agent_robust"}
    /\ status \in POSITIVE_OUTCOMES
    /\ log.rv = 1

\* C1: is_robust first asks the planner about every projection, in the order of
\* problem.agents, and returns NON_ROBUST_SINGLE_AGENT iff one of the answers is
\* not positive, in which case the verifier problem is never built nor solved;
\* otherwise it builds and solves the verifier problem once, after all the
\* projections, and returns ROBUST_RATIONAL iff the answer is not positive.
PipelineOrder ==
    /\ (op = "is_robust" /\ pc = "sap") =>
          (~log.rvbuilt /\ log.rv = 0 /\ log.sap = k /\ ~log.sapneg)
    /\ (op = "is_robust" /\ pc = "rv") =>
          (log.sap = Len(Problem.agents) /\ ~log.sapneg /\ log.rvbuilt /\ log.rv = 1)
    /\ Returned =>
          /\ (ret = "NON_ROBUST_SINGLE_AGENT") <=> log.sapneg
          /\ (ret = "NON_ROBUST_SINGLE_AGENT") => (~log.rvbuilt /\ log.rv = 0)
          /\ (ret # "NON_ROBUST_SINGLE_AGENT") =>
                /\ log.sap = Len(Problem.agents)
                /\ log.rv = 1
                /\ (ret = "ROBUST_RATIONAL") <=> (status \notin POSITIVE_OUTCOMES)

\* is_robust stopped at the second projection
PipelineOrderWitness ==
    Returned /\ ret = "NON_ROBUST_SINGLE_AGENT" /\ log.sap = 2 /\ ~log.rvbuilt

FirstMatch(names) ==
    LET W == {i \in 1..Len(names) : Last2(names[i]) \in {<<"_", "f">>, <<"_", "w">>}}
    IN IF W = {} THEN 0 ELSE CHOOSE i \in W : \A j \in W : i <= j

\* C2: the scan returns at the first action of the plan whose name ends in _f or
\* _w: NON_ROBUST_MULTI_AGENT_FAIL for _f, NON_ROBUST_MULTI_AGENT_DEADLOCK for
\* _w, and NON_ROBUST_MULTI_AGENT_FAIL when no name of the plan ends so.
ScanLastTwo ==
    (pc = "idle") =>
        /\ pos = (IF FirstMatch(plan) = 0 THEN Len(plan) ELSE FirstMatch(plan))
        /\ ret = (IF FirstMatch(plan) = 0 THEN "NON_ROBUST_MULTI_AGENT_FAIL"
                  ELSE IF Last2(plan[FirstMatch(plan)]) = <<"_", "f">>
                       THEN "NON_ROBUST_MULTI_AGENT_FAIL"
                       ELSE "NON_ROBUST_MULTI_AGENT_DEADLOCK")

\* a plan whose second name ends in _w and whose third ends in _f
ScanLastTwoWitness ==
    /\ pc = "idle"
    /\ Len(plan) = 3
    /\ FirstMatch(plan) = 2
    /\ Last2(plan[3]) = <<"_", "f">>
    /\ ret = "NON_ROBUST_MULTI_AGENT_DEADLOCK"

\* C3: after a plan of the verifier problem, is_robust returns
\* NON_ROBUST_MULTI_AGENT_FAIL iff the first fail or wait copy of the plan is a
\* fail copy, and NON_ROBUST_MULTI_AGENT_DEADLOCK otherwise.
FirstWitnessDecides ==
    (Returned /\ PlanRecorded) =>
        /\ (ret = "NON_ROBUST_MULTI_AGENT_FAIL") <=> (hist.first = "f")
        /\ (ret = "NON_ROBUST_MULTI_AGENT_DEADLOCK") <=> (hist.first # "f")

\* C4: when is_robust returns ROBUST_RATIONAL every projection is solvable.
RobustHasSolvableProjections ==
    (Returned /\ ret = "ROBUST_RATIONAL") =>
        \A i \in DOMAIN Problem.agents : SolvableSAP[pid][i]

\* is_robust returned ROBUST_RATIONAL on the planner's proof
RobustHasSolvableProjectionsWitness ==
    /\ Returned
    /\ ret = "ROBUST_RATIONAL"
    /\ status = "UNSOLVABLE_PROVEN"
    /\ log.sap = Len(Problem.agents)

\* C4 as stated: when is_multi_agent_robust returns True on the planner's proof
\* that the verifier problem has no plan, every projection is solvable.
MultiAgentRobustHasSolvableProjections ==
    (pc = "idle" /\ op = "is_multi_agent_robust" /\ ret = "True"
        /\ status = "UNSOLVABLE_PROVEN") =>
        \A i \in DOMAIN Problem.agents : SolvableSAP[pid][i]

FourCarsDeadlockStatus ==
    (pid = "4cars_deadlock" /\ Returned /\ status \in Definitive) =>
        ret = "NON_ROBUST_MULTI_AGENT_DEADLOCK"

\* C7: the goal of the verifier problem is failure and fin(A) for every agent A;
\* failure is true only after an action whose name ends with _f or _w or has a
\* _f_ or _w_ part, so every recorded plan contains one.
PlanNamesWitness ==
    /\ (pc = "rv") =>
          /\ GoalReached(prob.goal, st) <=>
                (failure \in st /\ \A i \in DOMAIN Problem.agents :
                                       fin(Problem.agents[i].obj) \in st)
          /\ (failure \in st) => hist.named
    /\ PlanRecorded => hist.named

\* is_multi_agent_robust returned False with a plan
PlanNamesWitnessWitness ==
    PlanRecorded /\ op = "is_multi_agent_robust" /\ ret = "False" /\ failure \in st

\* C8: a step of the verifier problem changes no local fact of an agent other
\* than the one the applied action belongs to.
LocalIsolation ==
    [][(pc = "rv" /\ pc' = "rv") =>
          \A atom \in (st \ st') \cup (st' \ st) :
              atom[1] = "l" => atom[2] = last'.agent]_vars

\* a success copy has changed a local fact of its agent while another agent has local facts
LocalIsolationWitness ==
    /\ pc = "rv"
    /\ last.kind = "s"
    /\ \E e \in last.eff : e.atom[1] = "l" /\ e.atom[2] = last.agent
                              /\ (e.atom \in st) # (e.atom \in prob.init)
    /\ \E atom \in st : atom[1] = "l" /\ atom[2] # last.agent

\* C9: waiting(A) is true iff a marker w-f that a wait copy of A has set is true
\* while the global g-f is false.
WaitingIffMarker ==
    (pc = "rv") =>
        \A i \in DOMAIN Problem.agents :
            (waiting(Problem.agents[i].obj) \in st) <=>
                (\E m \in hist.wby : /\ m[1] = Problem.agents[i].obj
                                     /\ m[2] \in st
                                     /\ (<<"g">> \o Tail(m[2])) \notin st)

\* an agent waits, and another agent has acted since
WaitingIffMarkerWitness ==
    /\ pc = "rv"
    /\ hist.wby # {}
    /\ last.kind = "s"
    /\ \E i \in DOMAIN Problem.agents : waiting(Problem.agents[i].obj) \in st

\* C10: crash, once true, stays true for the rest of the search.
CrashMonotone ==
    [][(pc = "rv" /\ pc' = "rv" /\ crash \in st) => crash \in st']_vars

\* a phantom copy and an end action have been applied after the crash
CrashMonotoneWitness ==
    /\ pc = "rv"
    /\ crash \in st
    /\ last.kind = "end_f"
    /\ \E a \in prob.actions : a.kind = "pc" /\ \A e \in a.eff : e.val => e.atom \in st

\* C11: fin(A), once true, stays true for the rest of the search, and only an
\* end action of A changes it.
FinMonotone ==
    [][(pc = "rv" /\ pc' = "rv") =>
          \A i \in DOMAIN Problem.agents :
              LET A == Problem.agents[i].obj IN
              /\ (fin(A) \in st) => (fin(A) \in st')
              /\ ((fin(A) \in st) # (fin(A) \in st')) =>
                    (last'.kind \in {"end_s", "end_f"} /\ last'.agent = A)]_vars

\* one agent has finished, and then another one
FinMonotoneWitness ==
    /\ pc = "rv"
    /\ last.kind \in {"end_s", "end_f"}
    /\ \E i \in DOMAIN Problem.agents :
          Problem.agents[i].obj # last.agent /\ fin(Problem.agents[i].obj) \in st

\* C12 (as stated): each fail, wait and phantom copy of the verifier's output
\* has the effect failure := True.
NonSuccessHasFailureEffect ==
    pc = "rv" =>
        \A a \in prob.actions :
            a.kind \in {"f", "w", "pc", "pw"} => Eff(failure, TRUE) \in a.eff

\* C12: each fail and wait copy has the effect failure := True; a phantom copy
\* has no effect on failure and is applied only when failure already holds;
\* so failure is true after every non-success copy the search applies.
NonSuccessSetsFailure ==
    [][(pc = "rv" /\ pc' = "rv" /\ <<st, last, hist>> # <<st', last', hist'>>) =>
          /\ last'.kind \in {"f", "w"} => Eff(failure, TRUE) \in last'.eff
          /\ last'.kind \in {"pc", "pw"} =>
                /\ \A e \in last'.eff : e.atom # failure
                /\ failure \in st
          /\ last'.kind \in {"f", "w", "pc", "pw"} => failure \in st']_vars

\* a phantom copy has been applied
NonSuccessSetsFailureWitness ==
    pc = "rv" /\ last.kind \in {"pc", "pw"} /\ failure \in st

-----------------------------------------------------------------------------
(* The original semantics of a multi-agent problem: an action is executed when
   its preconditions and its waitfor preconditions hold *)

Executable(action, s) == \A f \in Facts(action.pre) \cup Range(action.wait) : Holds(f, s)

Effects(action, s) ==
    (s \ {e.atom : e \in {x \in Range(action.eff) : ~x.val}})
        \cup {e.atom : e \in {x \in Range(action.eff) : x.val}}

\* the g- facts of a state of the verifier problem, as a state of the original problem
Glob(s) == {Tail(atom) : atom \in {x \in s : x[1] = "g"}}

\* C13: the g- facts start as the original initial state; a success copy of an
\* action changes them as the action does, in a state where its preconditions
\* and waitfor preconditions hold; no other action changes them.
GlobalRunIsOriginalRun ==
    [][/\ (pc # "rv" /\ pc' = "rv") => Glob(st') = Problem.init
       /\ (pc = "rv" /\ pc' = "rv") =>
             IF last'.kind = "s"
             THEN \E action \in Problem.actions :
                     /\ action.name = last'.orig
                     /\ action.agent.obj = last'.agent
                     /\ Executable(action, Glob(st))
                     /\ Glob(st') = Effects(action, Glob(st))
             ELSE Glob(st') = Glob(st)]_vars

\* a success copy has changed the g- facts after another agent began to wait
GlobalRunIsOriginalRunWitness ==
    /\ pc = "rv"
    /\ last.kind = "s"
    /\ crash \notin st
    /\ hist.first = "w"
    /\ Glob(st) # Problem.init

-----------------------------------------------------------------------------
\* the agents of the problem that have finished
Finished == {i \in DOMAIN Problem.agents : fin(Problem.agents[i].obj) \in st}

\* C14 (as stated): act is false only when every agent has finished.
ActClearedByLastAgent ==
    (pc = "rv" /\ act \notin st) => Finished = DOMAIN Problem.agents

\* C14: every end action clears act: act is true exactly while no agent has
\* finished, and once it is false only end actions are applicable.
ActClearedByFirstEnd ==
    pc = "rv" =>
        /\ (act \in st) <=> (Finished = {})
        /\ (act \notin st) =>
              \A a \in prob.actions : Applicable(a, st) => a.kind \in {"end_s", "end_f"}

\* one agent has finished, another has not and can only end
ActClearedByFirstEndWitness ==
    /\ pc = "rv"
    /\ last.kind \in {"end_s", "end_f"}
    /\ Finished # {} /\ Finished # DOMAIN Problem.agents
    /\ act \notin st
    /\ \E a \in prob.actions : Applicable(a, st) /\ a.agent # last.agent

\* C15: when is_multi_agent_robust has returned, it returned False iff the
\* planner returned a plan for the verifier problem, and a counterexample is
\* stored iff it returned False, whatever earlier calls had stored.
CounterexampleIffNotRobust ==
    (pc = "idle" /\ op = "is_multi_agent_robust") =>
        /\ ret \in {"True", "False"}
        /\ (ret = "False") <=> (status \in POSITIVE_OUTCOMES)
        /\ (counter_example = "Plan") <=> (ret = "False")

\* a call that began with a stored counterexample has returned True
CounterexampleIffNotRobustWitness ==
    /\ pc = "idle"
    /\ op = "is_multi_agent_robust"
    /\ log.had
    /\ ret = "True"
    /\ counter_example = "None"

\* C16: is_single_agent_solvable asks the planner about the projections in the
\* order of the agents, the k-th call being about agent k and made only after
\* positive answers for all earlier agents; it returns True iff every agent's
\* projection got a positive answer, and False at the first answer that is not
\* positive, with no later call to the planner.
SingleAgentSolvableFirstUnsolved ==
    op = "is_single_agent_solvable" =>
        /\ log.sap = k
        /\ log.rv = 0
        /\ pc = "sap" => ~log.sapneg
        /\ pc = "idle" =>
              /\ ret \in {"True", "False"}
              /\ (ret = "True") <=> (~log.sapneg /\ log.sap = Len(Problem.agents))
              /\ (ret = "True") => (status \in POSITIVE_OUTCOMES)
              /\ (ret = "False") <=> log.sapneg
              /\ (ret = "False") => (status \notin POSITIVE_OUTCOMES)

\* False was returned at the first agent, the planner was called once
SingleAgentSolvableFirstUnsolvedWitness ==
    /\ op = "is_single_agent_solvable"
    /\ pc = "idle"
    /\ ret = "False"
    /\ log.sap = 1
    /\ Len(Problem.agents) > 1

-----------------------------------------------------------------------------
\* C18: a state of the projection for agent A is a goal state iff all of A's
\* goals hold in it, whatever the goals of the other agents and of the input
\* problem.
ProjectionGoalIsAgentGoal ==
    pc = "sap" =>
        (GoalReached(prob.goal, st) <=>
            \A g \in Range(Problem.agents[k].goals) : Holds(g, st))

\* a goal state of the projection in which a goal of the input problem is false
ProjectionGoalIsAgentGoalWitness ==
    /\ pc = "sap"
    /\ last # NoAction
    /\ GoalReached(prob.goal, st)
    /\ ~GoalReached(Problem.goals, st)

\* C19: every action of the projection has an empty waitfor list, and is
\* applicable in a state iff active-agent holds for the agent it is bound to
\* and all preconditions and all waitfor conditions of the original action hold.
WaitforPromoted ==
    pc = "sap" =>
        /\ \A a \in prob.actions :
              /\ a.wait = <<>>
              /\ \E action \in SAPKept(Problem, Problem.agents[k]) : a = SAPAction(action)
        /\ \A action \in SAPKept(Problem, Problem.agents[k]) :
              /\ SAPAction(action) \in prob.actions
              /\ Applicable(SAPAction(action), st) <=>
                    (active_agent(action.agent.obj) \in st /\ Executable(action, st))

\* only a waitfor condition keeps an action of the projection from being applicable
WaitforPromotedWitness ==
    /\ pc = "sap"
    /\ last # NoAction
    /\ \E action \in SAPKept(Problem, Problem.agents[k]) :
          /\ active_agent(action.agent.obj) \in st
          /\ \A f \in Facts(action.pre) : Holds(f, st)
          /\ \E f \in Range(action.wait) : ~Holds(f, st)
          /\ ~Applicable(SAPAction(action), st)

\* C20 (as stated): every action of the input problem is present in the
\* projection.
ProjectionKeepsAllActions ==
    pc = "sap" => \A action \in Problem.actions : SAPAction(action) \in prob.actions

\* C20: an action of the input problem is present in the projection for A iff
\* it is bound to A or to an ExistingObjectAgent; every action that is
\* applicable in a state of the projection is bound to A's object.
ProjectionKeepsOwnAndObjectAgents ==
    pc = "sap" =>
        \A action \in Problem.actions :
            /\ SAPAction(action) \in prob.actions <=>
                  (AgentEq(action.agent, Problem.agents[k])
                   \/ action.agent.kind = "ExistingObjectAgent")
            /\ (SAPAction(action) \in prob.actions /\ Applicable(SAPAction(action), st)) =>
                  action.agent.obj = Problem.agents[k].obj

\* the projection has dropped an action of another agent
ProjectionKeepsOwnAndObjectAgentsWitness ==
    /\ pc = "sap"
    /\ last # NoAction
    /\ \E action \in Problem.actions :
          /\ ~AgentEq(action.agent, Problem.agents[k])
          /\ SAPAction(action) \notin prob.actions

-----------------------------------------------------------------------------
(* The cache of a transformer: get_rewritten_problem called again and again on
   one transformer T(P).  A problem object is its identity (ref), the names of
   the fluents declared in it, and its actions, initial state and goal. *)

MaxCalls == 5

Transformers == {"SingleAgentProjection", "InstantaneousActionRobustnessVerifier", "SocialLaw"}

\* problem.fluents, by name
FluentNames(problem) ==
    {<<atom[1]>> : atom \in problem.init
                     \cup {f.atom : f \in problem.goals}
                     \cup UNION {{f.atom : f \in Facts(action.pre) \cup Range(action.wait)}
                                 \cup {e.atom : e \in Range(action.eff)}
                                 : action \in problem.actions}}

\* the problem prepare_rewritten_problem creates: the g- and l- fluents
Prepared(problem) ==
    [ref |-> "new",
     fluents |-> {<<"g">> \o n : n \in FluentNames(problem)} \cup {<<"l">> \o n : n \in FluentNames(problem)},
     problem |-> NoProblem]

\* the fluents InstantaneousActionRobustnessVerifier.get_rewritten_problem adds, in order
AddedFluents ==
    <<failure, crash, act, <<"fin">>, <<"waiting">> >>

\* a call returned the problem object, or raised
Result(object) == [raised |-> FALSE, returned |-> object]
Raised == [raised |-> TRUE, returned |-> NoObject]

\* the input problems of the transformers: also those a transformer fails on
CachePids == Pids \cup {"two_types", "durative"}

\* the assertion on agent.obj.type of the projection and of prepare_rewritten_problem
SameAgentType(problem) ==
    \A i, j \in DOMAIN problem.agents : problem.agents[i].type = problem.agents[j].type

IsDurative(action) == "duration" \in DOMAIN action

\* self._problem.clone(), as an object of its own
Clone(problem) ==
    [ref |-> "new",
     fluents |-> FluentNames(problem),
     problem |-> [actions |-> problem.actions, init |-> problem.init, goal |-> problem.goals]]

CacheInit ==
    /\ pid \in CachePids
    /\ op = "none"
    /\ pc = "idle"
    /\ transformer \in Transformers
    /\ (transformer = "InstantaneousActionRobustnessVerifier") => (pid # "durative")
    /\ k \in (IF transformer = "SingleAgentProjection" THEN DOMAIN Problem.agents ELSE {0})
    /\ prob = NoProblem
    /\ st = {}
    /\ last = NoAction
    /\ scan = "none"
    /\ hist = NoHist
    /\ status = "none"
    /\ counter_example = "None"
    /\ ret = "none"
    /\ log = NoLog
    /\ plan = <<>>
    /\ pos = 0
    /\ new_problem = NoObject
    /\ calls = <<>>
    /\ running = {}
    /\ agents = <<>>
    /\ lists = <<>>

\* SingleAgentProjection.get_rewritten_problem, for agent k.  _new_problem is
\* assigned the clone first; the assertion on the agents' types and the
\* NotImplementedError for a durative action come later and leave it assigned.
\* The actions added before a durative one are any part of the kept
\* instantaneous ones (the order of problem.actions is not modelled).
Projection_get_rewritten_problem ==
    /\ transformer = "SingleAgentProjection"
    /\ Len(calls) < MaxCalls
    /\ LET agent == Problem.agents[k]
           kept == SAPKept(Problem, agent)
           cloned == Clone(Problem)
       IN IF new_problem.ref # "None"
          THEN /\ new_problem' = new_problem
               /\ calls' = Append(calls, Result(new_problem'))
          ELSE IF ~SameAgentType(Problem)
          THEN /\ new_problem' = cloned
               /\ calls' = Append(calls, Raised)
          ELSE IF \E action \in kept : IsDurative(action)
          THEN /\ \E done \in SUBSET {action \in kept : ~IsDurative(action)} :
                     new_problem' =
                        [ref |-> "new",
                         fluents |-> cloned.fluents \cup {<<"active-agent">>},
                         problem |-> [actions |-> {SAPAction(action) : action \in done},
                                      init |-> Problem.init \cup {active_agent(agent.obj)},
                                      goal |-> Problem.goals]]
               /\ calls' = Append(calls, Raised)
          ELSE /\ new_problem' =
                     [ref |-> "new",
                      fluents |-> cloned.fluents \cup {<<"active-agent">>},
                      problem |-> get_rewritten_problem_sap(Problem, agent)]
               /\ calls' = Append(calls, Result(new_problem'))
    /\ UNCHANGED <<running, agents, lists>>
    /\ UNCHANGED <<pid, op, pc, k, prob, st, last, scan, hist, status, counter_example, ret, log,
                   plan, pos, transformer>>

\* InstantaneousActionRobustnessVerifier.get_rewritten_problem: prepare_rewritten_problem
\* returns early when the problem exists; the rest runs on every call, and
\* add_fluent raises on a name that is already declared.  When the assertion on
\* the agents' types failed in prepare_rewritten_problem, the problem exists
\* without g- and l- fluents: the next call adds its fluents and then fails in
\* get_global_version, on the empty _g_fluent_map.
Verifier_get_rewritten_problem ==
    /\ transformer = "InstantaneousActionRobustnessVerifier"
    /\ Len(calls) < MaxCalls
    /\ IF new_problem.ref = "None" /\ ~SameAgentType(Problem)
       THEN /\ new_problem' = [ref |-> "new", fluents |-> {}, problem |-> NoProblem]
            /\ calls' = Append(calls, Raised)
       ELSE LET prepared == IF new_problem.ref # "None" THEN new_problem ELSE Prepared(Problem)
                added == prepared.fluents \cup Range(AddedFluents)
                            \cup {<<"w">> \o n : n \in FluentNames(Problem)}
            IN IF AddedFluents[1] \in prepared.fluents
               THEN /\ new_problem' = prepared
                    /\ calls' = Append(calls, Raised)
               ELSE IF Prepared(Problem).fluents \subseteq prepared.fluents
               THEN /\ new_problem' =
                          [ref |-> prepared.ref,
                           fluents |-> added,
                           problem |-> get_rewritten_problem_rv(Problem)]
                    /\ calls' = Append(calls, Result(new_problem'))
               ELSE /\ new_problem' = [prepared EXCEPT !.fluents = added]
                    /\ calls' = Append(calls, Raised)
    /\ UNCHANGED <<running, agents, lists>>
    /\ UNCHANGED <<pid, op, pc, k, prob, st, last, scan, hist, status, counter_example, ret, log,
                   plan, pos, transformer>>

\* SocialLaw.get_rewritten_problem: the input problem itself
SocialLaw_get_rewritten_problem ==
    /\ transformer = "SocialLaw"
    /\ Len(calls) < MaxCalls
    /\ new_problem' =
          IF new_problem.ref # "None" THEN new_problem
          ELSE [ref |-> "input", fluents |-> FluentNames(Problem), problem |-> Problem]
    /\ calls' = Append(calls, Result(new_problem'))
    /\ UNCHANGED <<running, agents, lists>>
    /\ UNCHANGED <<pid, op, pc, k, prob, st, last, scan, hist, status, counter_example, ret, log,
                   plan, pos, transformer>>

CacheNext ==
    \/ Projection_get_rewritten_problem
    \/ Verifier_get_rewritten_problem
    \/ SocialLaw_get_rewritten_problem

CacheSpec == CacheInit /\ [][CacheNext]_vars

\* C17: every call of get_rewritten_problem after the first returns, without
\* raising, the object the first call returned, with the content it had then.
IdempotentCaching ==
    \A i \in DOMAIN calls :
        /\ ~calls[i].raised
        /\ calls[i].returned = calls[1].returned

-----------------------------------------------------------------------------
(* The copies of an action, one by one.  A state of the verifier problem is
   read as the global state, each agent's local state and the flags. *)

\* the l- facts of agent A in a state of the verifier problem, as a state of the original problem
Loc(s, A) == {SubSeq(atom, 3, Len(atom)) : atom \in {x \in s : x[1] = "l" /\ x[2] = A}}

\* what a state holds besides the g- facts and the l- facts of agent A
Frame(s, A) == {x \in s : x[1] # "g" /\ ~(x[1] = "l" /\ x[2] = A)}

\* the w- facts of a state
Markers(s) == {x \in s : x[1] = "w"}

\* the state changed by an action the planner applied to the verifier problem
RvApplied == pc = "rv" /\ pc' = "rv" /\ <<st, last, hist>> # <<st', last', hist'>>

\* C26: the success copy of an action of agent A is applicable iff act holds,
\* crash and waiting(A) are false, the action's preconditions and waitfor
\* conditions hold in the g- facts and in A's l- facts, and no w- marker is set
\* for a fact the action makes true; applying it applies the action's effects
\* to the g- facts and to A's l- facts and changes nothing else.
SuccessCopyContract ==
    [][pc = "rv" =>
         \A action \in Problem.actions :
            LET A == action.agent.obj
                copy == SuccessCopy(action)
            IN /\ copy \in prob.actions
               /\ Applicable(copy, st) <=>
                     /\ act \in st /\ crash \notin st /\ waiting(A) \notin st
                     /\ Executable(action, Glob(st))
                     /\ Executable(action, Loc(st, A))
                     /\ \A e \in Range(action.eff) : e.val => (<<"w">> \o e.atom) \notin st
               /\ (RvApplied /\ last' = copy) =>
                     /\ Glob(st') = Effects(action, Glob(st))
                     /\ Loc(st', A) = Effects(action, Loc(st, A))
                     /\ Frame(st', A) = Frame(st, A)]_vars

\* a success copy is blocked by nothing but a w- marker on a fact it would make true
SuccessCopyContractWitness ==
    /\ pc = "rv"
    /\ \E action \in Problem.actions :
          /\ act \in st /\ crash \notin st /\ waiting(action.agent.obj) \notin st
          /\ Executable(action, Glob(st))
          /\ Executable(action, Loc(st, action.agent.obj))
          /\ ~Applicable(SuccessCopy(action), st)

\* C27: the i-th fail copy of an action of agent A is applicable iff act holds,
\* crash and waiting(A) are false, the action's preconditions and waitfor
\* conditions hold in A's l- facts, its waitfor conditions hold in the g- facts
\* and its i-th atomic precondition does not; applying it sets failure and
\* crash, applies the action's effects to A's l- facts and changes nothing else.
FailCopyContract ==
    [][pc = "rv" =>
         \A action \in Problem.actions : \A i \in DOMAIN real_preconds(action) :
            LET A == action.agent.obj
                copy == FailCopy(action, i)
            IN /\ copy \in prob.actions
               /\ Applicable(copy, st) <=>
                     /\ act \in st /\ crash \notin st /\ waiting(A) \notin st
                     /\ Executable(action, Loc(st, A))
                     /\ \A f \in Range(action.wait) : Holds(f, Glob(st))
                     /\ ~Holds(real_preconds(action)[i], Glob(st))
               /\ (RvApplied /\ last' = copy) =>
                     /\ Glob(st') = Glob(st)
                     /\ Loc(st', A) = Effects(action, Loc(st, A))
                     /\ Frame(st', A) = Frame(st, A) \cup {failure, crash}]_vars

\* a fail copy has been applied and the agent's local state has moved on
FailCopyContractWitness ==
    /\ pc = "rv"
    /\ last.kind = "f"
    /\ crash \in st
    /\ Loc(st, last.agent) # Glob(st)

\* C28: the i-th wait copy of an action of agent A is applicable iff act holds,
\* crash and waiting(A) are false, the action's preconditions and waitfor
\* conditions hold in A's l- facts and its i-th waitfor condition does not hold
\* in the g- facts; applying it sets the w- marker of that condition,
\* waiting(A) and failure, applies the action's effects to A's l- facts and
\* changes nothing else: no g- fact, not crash.
WaitCopyContract ==
    [][pc = "rv" =>
         \A action \in Problem.actions : \A i \in DOMAIN action.wait :
            LET A == action.agent.obj
                copy == WaitCopy(action, i)
            IN /\ copy \in prob.actions
               /\ Applicable(copy, st) <=>
                     /\ act \in st /\ crash \notin st /\ waiting(A) \notin st
                     /\ Executable(action, Loc(st, A))
                     /\ ~Holds(action.wait[i], Glob(st))
               /\ (RvApplied /\ last' = copy) =>
                     /\ Glob(st') = Glob(st)
                     /\ Loc(st', A) = Effects(action, Loc(st, A))
                     /\ Frame(st', A) = Frame(st, A)
                           \cup {<<"w">> \o action.wait[i].atom, waiting(A), failure}]_vars

\* a wait copy has been applied: the marker and waiting are set, crash is not
WaitCopyContractWitness ==
    /\ pc = "rv"
    /\ last.kind = "w"
    /\ waiting(last.agent) \in st
    /\ Markers(st) # {}
    /\ crash \notin st

\* C29: the phantom copy _pc (resp. _pw) of an action of agent A is applicable
\* iff act and crash (resp. waiting(A)) hold and the action's preconditions and
\* waitfor conditions hold in A's l- facts; applying it applies the action's
\* effects to A's l- facts and changes nothing else.
PhantomCopyContract ==
    [][pc = "rv" =>
         \A action \in Problem.actions :
            LET A == action.agent.obj
                a_pc == PhantomCrashCopy(action)
                a_pw == PhantomWaitCopy(action)
            IN /\ a_pc \in prob.actions
               /\ a_pw \in prob.actions
               /\ Applicable(a_pc, st) <=>
                     (act \in st /\ crash \in st /\ Executable(action, Loc(st, A)))
               /\ Applicable(a_pw, st) <=>
                     (act \in st /\ waiting(A) \in st /\ Executable(action, Loc(st, A)))
               /\ (RvApplied /\ last' \in {a_pc, a_pw}) =>
                     /\ Glob(st') = Glob(st)
                     /\ Loc(st', A) = Effects(action, Loc(st, A))
                     /\ Frame(st', A) = Frame(st, A)]_vars

\* after a crash an agent has gone on through a _pc copy, in its local state only
PhantomCopyContractWitness ==
    /\ pc = "rv"
    /\ last.kind = "pc"
    /\ crash \in st
    /\ last.eff # {}
    /\ Loc(st, last.agent) # Glob(st)

\* C30: end_s of agent A is applicable iff fin(A) is false and every goal of A
\* holds in the g- facts and in A's l- facts; applying it sets fin(A), clears
\* act and changes nothing else, so it does not set failure.
EndSuccessContract ==
    [][pc = "rv" =>
         \A i \in DOMAIN Problem.agents :
            LET agent == Problem.agents[i]
                A == agent.obj
            IN /\ end_s(agent) \in prob.actions
               /\ Applicable(end_s(agent), st) <=>
                     /\ fin(A) \notin st
                     /\ \A g \in Range(agent.goals) : Holds(g, Glob(st)) /\ Holds(g, Loc(st, A))
               /\ (RvApplied /\ last' = end_s(agent)) =>
                     /\ fin(A) \in st'
                     /\ (failure \in st') <=> (failure \in st)
                     /\ st' = (st \cup {fin(A)}) \ {act}]_vars

\* end_s has been applied in a run without failure
EndSuccessContractWitness ==
    /\ pc = "rv"
    /\ last.kind = "end_s"
    /\ fin(last.agent) \in st
    /\ failure \notin st

-----------------------------------------------------------------------------
\* the values an operation of SocialLaw returns
Verdicts ==
    {"True", "False", "ROBUST_RATIONAL", "NON_ROBUST_SINGLE_AGENT",
     "NON_ROBUST_MULTI_AGENT_FAIL", "NON_ROBUST_MULTI_AGENT_DEADLOCK"}

\* C22: an operation that ended on the planner's status ERROR has returned no
\* verdict: it has surfaced a PlannerError.
ErrorIsNoVerdict ==
    (pc = "idle" /\ status = "ERROR") => (ret = "PlannerError" /\ ret \notin Verdicts)

-----------------------------------------------------------------------------
(* Errors: the planner may also crash, that is, planner.solve raises.  No
   operation of SocialLaw catches anything, so the exception leaves the
   operation at once and nothing after the call runs. *)

\* solve raises on a projection: is_single_agent_solvable (and is_robust around it) is left
SapCrashed ==
    /\ pc = "sap"
    /\ status' = "none"
    /\ Discard
    /\ Return("raised")
    /\ UNCHANGED <<pid, counter_example, log, plan, pos, cachevars>>

\* solve raises on the verifier problem: is_multi_agent_robust (and is_robust around it) is left
RvCrashed ==
    /\ pc = "rv"
    /\ status' = "none"
    /\ Discard
    /\ Return("raised")
    /\ UNCHANGED <<pid, counter_example, log, plan, pos, cachevars>>

ErrorNext ==
    \/ Next
    \/ SapCrashed
    \/ RvCrashed

ErrorSpec == Init /\ [][ErrorNext]_vars

\* C23: after an operation that ended in an error no counterexample is stored.
ErrorClearsCounterexample ==
    (pc = "idle" /\ ret = "raised") => counter_example = "None"

-----------------------------------------------------------------------------
(* NegativeConditionsRemover.  A problem here has conditional effects, effects
   whose value is a fluent expression, and timed effects:
     literal  [atom, pos]
     value    [kind |-> "const", b] or [kind |-> "fluent", atom, pos]
     effect   [cond (a set of literals), atom, val, time]   (time 0: of an action)
   The remover gives every fluent f used under Not a fluent ncrm-f, replaces
   Not(f(args)) by ncrm-f(args) in every condition, starts ncrm-f(args) as the
   negation of f(args) and pairs every effect on f with the opposite effect on
   ncrm-f under the same condition and timing. *)

MaxTime == 3

Const(b) == [kind |-> "const", b |-> b]
Val(fact) == [kind |-> "fluent", atom |-> fact.atom, pos |-> fact.pos]
CEff(cond, atom, val, time) == [cond |-> cond, atom |-> atom, val |-> val, time |-> time]

NcrPids == {"basic", "basic_conditional", "ad_hoc_2", "lights"}

\* the problems of test_negative_conditions_remover.py (ad_hoc_2 with its timed
\* effect at time 2), and three lights: a fluent with arguments, an effect
\* whose value is a fluent, a timed effect on a negated fluent
NcrProblem(id) ==
    CASE id = "basic" ->
           [atoms |-> {fx},
            actions |-> {[name |-> <<"a">>, pre |-> {Neg(fx)},
                          eff |-> {CEff({}, fx, Const(TRUE), 0)}]},
            timed |-> {},
            init |-> {},
            goals |-> {Pos(fx)}]
      [] id = "basic_conditional" ->
           [atoms |-> {fx, <<"y">>},
            actions |-> {[name |-> <<"a", "_", "x">>, pre |-> {Neg(fx)},
                          eff |-> {CEff({Pos(<<"y">>)}, fx, Const(TRUE), 0)}],
                         [name |-> <<"a", "_", "y">>, pre |-> {Neg(<<"y">>)},
                          eff |-> {CEff({}, <<"y">>, Const(TRUE), 0)}]},
            timed |-> {},
            init |-> {},
            goals |-> {Pos(fx)}]
      [] id = "ad_hoc_2" ->
           [atoms |-> {fx, <<"y">>},
            actions |-> {},
            timed |-> {CEff({Neg(<<"y">>)}, <<"y">>, Val(Pos(fx)), 2)},
            init |-> {fx},
            goals |-> {Pos(fx)}]
      [] id = "lights" ->
           [atoms |-> {<<"lit", "l1">>, <<"lit", "l2">>, <<"lit", "l3">>},
            actions |-> {[name |-> <<"o", "n", "1">>, pre |-> {Neg(<<"lit", "l1">>)},
                          eff |-> {CEff({}, <<"lit", "l1">>, Const(TRUE), 0)}],
                         [name |-> <<"o", "f", "f", "1">>, pre |-> {Pos(<<"lit", "l1">>)},
                          eff |-> {CEff({}, <<"lit", "l1">>, Const(FALSE), 0)}],
                         [name |-> <<"c", "o", "p", "y">>, pre |-> {},
                          eff |-> {CEff({Neg(<<"lit", "l3">>)}, <<"lit", "l2">>,
                                        Val(Pos(<<"lit", "l1">>)), 0)}],
                         [name |-> <<"f", "l", "i", "p">>, pre |-> {Pos(<<"lit", "l2">>)},
                          eff |-> {CEff({}, <<"lit", "l2">>, Val(Neg(<<"lit", "l2">>)), 0),
                                   CEff({Pos(<<"lit", "l1">>)}, <<"lit", "l3">>, Const(FALSE), 0)}]},
            timed |-> {CEff({}, <<"lit", "l3">>, Const(TRUE), 1),
                       CEff({Pos(<<"lit", "l2">>)}, <<"lit", "l1">>, Const(FALSE), 3)},
            init |-> {<<"lit", "l2">>},
            goals |-> {Pos(<<"lit", "l2">>), Neg(<<"lit", "l1">>)}]

\* the fluents found under a Not in a precondition, an effect's condition or a goal
fluent_mapping(problem) ==
    {l.atom[1] : l \in {x \in problem.goals
                             \cup UNION {a.pre : a \in problem.actions}
                             \cup UNION {e.cond : e \in problem.timed
                                                     \cup UNION {a.eff : a \in problem.actions}}
                          : ~x.pos}}

\* the ground fluent ncrm-f(args) for f(args)
neg_fluent(atom) == <<"ncrm">> \o atom

\* a bug: the negation is dropped
remove_negative_fluents_drop(fact) == Pos(fact.atom)

\* Not(f(args)) becomes ncrm-f(args)
remove_negative_fluents(fact) == IF fact.pos THEN fact ELSE Pos(neg_fluent(fact.atom))

\* simplify(Not(v))
NotValue(v) == IF v.kind = "const" THEN Const(~v.b) ELSE [v EXCEPT !.pos = ~@]

\* a bug: the effect on ncrm-f is made unconditional
new_effects_unconditional(effects, mapping) ==
    LET rewritten == {[e EXCEPT !.cond = {remove_negative_fluents(l) : l \in @}] : e \in effects}
    IN rewritten
       \cup {[e EXCEPT !.cond = {}, !.atom = neg_fluent(@), !.val = NotValue(@)]
             : e \in {x \in rewritten : x.atom[1] \in mapping}}

\* the effects with their conditions rewritten, and for each effect on a
\* fluent of the mapping the opposite effect on its ncrm- fluent
new_effects(effects, mapping) ==
    LET rewritten == {[e EXCEPT !.cond = {remove_negative_fluents(l) : l \in @}] : e \in effects}
    IN rewritten
       \cup {[e EXCEPT !.atom = neg_fluent(@), !.val = NotValue(@)]
             : e \in {x \in rewritten : x.atom[1] \in mapping}}

get_rewritten_problem_ncr(problem) ==
    LET mapping == fluent_mapping(problem)
        mapped == {a \in problem.atoms : a[1] \in mapping}
    IN [atoms |-> problem.atoms \cup {neg_fluent(a) : a \in mapped},
        actions |-> {[name |-> a.name,
                      pre |-> {remove_negative_fluents(l) : l \in a.pre},
                      eff |-> new_effects(a.eff, mapping)] : a \in problem.actions},
        timed |-> new_effects(problem.timed, mapping),
        init |-> problem.init \cup {neg_fluent(a) : a \in mapped \ problem.init},
        goals |-> {remove_negative_fluents(l) : l \in problem.goals}]

\* the value of an effect in a state
Eval(v, s) == IF v.kind = "const" THEN v.b ELSE Holds(v, s)

\* the state after a set of conditional effects, all evaluated in s
ApplyEffects(effects, s) ==
    LET fire == {e \in effects : \A l \in e.cond : Holds(l, s)}
    IN (s \ {e.atom : e \in {x \in fire : ~Eval(x.val, s)}})
           \cup {e.atom : e \in {x \in fire : Eval(x.val, s)}}

\* a state of the rewritten problem, as a state of the input problem
Orig(s) == {a \in s : a[1] # "ncrm"}

NcrInit ==
    /\ pid \in NcrPids
    /\ op = "none"
    /\ pc = "ncr"
    /\ k = 0
    /\ prob = get_rewritten_problem_ncr(NcrProblem(pid))
    /\ st = prob.init
    /\ last = NoAction
    /\ scan = "none"
    /\ hist = NoHist
    /\ status = "none"
    /\ counter_example = "None"
    /\ ret = "none"
    /\ log = NoLog
    /\ plan = <<>>
    /\ pos = 0
    /\ transformer = "NegativeConditionsRemover"
    /\ new_problem = NoObject
    /\ calls = <<>>
    /\ running = {}
    /\ agents = <<>>
    /\ lists = <<>>

\* an action of the rewritten problem is executed; k is the time
NcrStep ==
    /\ pc = "ncr"
    /\ \E a \in prob.actions :
          /\ Applicable(a, st)
          /\ st' = ApplyEffects(a.eff, st)
          /\ last' = a
    /\ UNCHANGED <<pid, op, pc, k, prob, scan, hist, status, counter_example, ret, log, plan, pos, cachevars>>

\* time passes: the timed effects of the next instant happen
NcrTick ==
    /\ pc = "ncr"
    /\ k < MaxTime
    /\ k' = k + 1
    /\ st' = ApplyEffects({e \in prob.timed : e.time = k + 1}, st)
    /\ last' = NoAction
    /\ UNCHANGED <<pid, op, pc, prob, scan, hist, status, counter_example, ret, log, plan, pos, cachevars>>

NcrNext == NcrStep \/ NcrTick

NcrSpec == NcrInit /\ [][NcrNext]_vars

\* C24: the rewritten problem has no negative condition, starts in the input's
\* initial state, and every step of a run of it is, on the input's fluents, the
\* step of the input problem with the same action (or the same timed effects):
\* the action is applicable and has the same result; a state that satisfies
\* the rewritten goals satisfies the input's goals.
PlanPreserved ==
    [][pc = "ncr" =>
         LET P == NcrProblem(pid) IN
         /\ \A l \in prob.goals \cup UNION {a.pre : a \in prob.actions}
                     \cup UNION {e.cond : e \in prob.timed \cup UNION {a.eff : a \in prob.actions}} :
                l.pos
         /\ Orig(prob.init) = P.init
         /\ GoalReached(prob.goals, st) => GoalReached(P.goals, Orig(st))
         /\ (k' = k /\ last' # NoAction) =>
               \E a \in P.actions :
                  /\ a.name = last'.name
                  /\ Applicable(a, Orig(st))
                  /\ Orig(st') = ApplyEffects(a.eff, Orig(st))
         /\ (k' = k + 1) =>
               Orig(st') = ApplyEffects({e \in P.timed : e.time = k'}, Orig(st))]_vars

\* a plan of the rewritten problem has reached a goal that has a negative condition
PlanPreservedWitness ==
    /\ pc = "ncr"
    /\ last # NoAction
    /\ GoalReached(prob.goals, st)
    /\ \E l \in NcrProblem(pid).goals : ~l.pos

\* C25: in every reachable state of the rewritten problem, ncrm-f(args) is
\* true iff f(args) is false, for every grounding of every fluent that got an
\* ncrm- fluent.
SignFlip ==
    pc = "ncr" =>
        \A a \in NcrProblem(pid).atoms :
            a[1] \in fluent_mapping(NcrProblem(pid)) =>
                ((neg_fluent(a) \in st) <=> (a \notin st))

\* a timed effect and a conditional effect with a fluent value have changed
\* fluents that have an ncrm- fluent
SignFlipWitness ==
    /\ pc = "ncr"
    /\ pid = "lights"
    /\ k >= 1
    /\ last # NoAction
    /\ last.name = <<"c", "o", "p", "y">>
    /\ <<"lit", "l3">> \in st
    /\ <<"ncrm", "lit", "l2">> \in st

-----------------------------------------------------------------------------
\* C21: when the first call of get_rewritten_problem on a transformer failed,
\* the transformer holds no problem and every later call has failed too.
FailFastNoPartialProblem ==
    (calls # <<>> /\ calls[1].raised) =>
        /\ new_problem = NoObject
        /\ \A i \in DOMAIN calls : calls[i].raised

-----------------------------------------------------------------------------
(* The end actions and the initial state of the verifier problem *)

\* C31: end_f of agent A and goal i is applicable iff fin(A) is false, every
\* goal of A holds in A's l- facts and goal i does not hold in the g- facts;
\* applying it sets fin(A) and failure.  So end_s of A and an end_f of A are
\* never applicable in the same state.
EndFailContract ==
    [][pc = "rv" =>
         \A n \in DOMAIN Problem.agents :
            LET agent == Problem.agents[n]
                A == agent.obj
            IN \A i \in DOMAIN agent.goals :
                 /\ end_f(agent, i) \in prob.actions
                 /\ Applicable(end_f(agent, i), st) <=>
                       /\ fin(A) \notin st
                       /\ \A g \in Range(agent.goals) : Holds(g, Loc(st, A))
                       /\ ~Holds(agent.goals[i], Glob(st))
                 /\ (RvApplied /\ last' = end_f(agent, i)) =>
                       /\ fin(A) \in st'
                       /\ failure \in st'
                 /\ ~(Applicable(end_s(agent), st) /\ Applicable(end_f(agent, i), st))]_vars

\* end_f has been applied by an agent whose own facts hold its goals while the
\* global facts do not
EndFailContractWitness ==
    /\ pc = "rv"
    /\ last.kind = "end_f"
    /\ fin(last.agent) \in st
    /\ failure \in st
    /\ \E n \in DOMAIN Problem.agents :
          /\ Problem.agents[n].obj = last.agent
          /\ \A g \in Range(Problem.agents[n].goals) : Holds(g, Loc(st, last.agent))
          /\ ~Holds(Problem.agents[n].goals[last.idx], Glob(st))

\* the ground fluents of a problem
GroundFluents(problem) ==
    problem.init
    \cup {f.atom : f \in problem.goals}
    \cup UNION {{f.atom : f \in Range(agent.goals)} : agent \in Range(problem.agents)}
    \cup UNION {{f.atom : f \in Facts(action.pre) \cup Range(action.wait)}
                \cup {e.atom : e \in Range(action.eff)}
                : action \in problem.actions}

\* C32: in the initial state of the verifier problem the g- fact and every
\* agent's l- fact of a ground fluent have the fluent's initial value in the
\* input, a default included; failure, crash, every fin, every waiting and every
\* w- fact are false, and act is true.
InitialStateCopied ==
    pc = "rv" =>
        /\ \A atom \in GroundFluents(Problem) :
              /\ Holds(get_global_version(Pos(atom)), prob.init) <=> atom \in initial_values(Problem)
              /\ \A n \in DOMAIN Problem.agents :
                    Holds(get_local_version(Pos(atom), Problem.agents[n].obj), prob.init)
                       <=> atom \in initial_values(Problem)
        /\ Glob(prob.init) = initial_values(Problem)
        /\ \A n \in DOMAIN Problem.agents :
              /\ Loc(prob.init, Problem.agents[n].obj) = initial_values(Problem)
              /\ fin(Problem.agents[n].obj) \notin prob.init
              /\ waiting(Problem.agents[n].obj) \notin prob.init
        /\ failure \notin prob.init
        /\ crash \notin prob.init
        /\ Markers(prob.init) = {}
        /\ act \in prob.init

\* the search on the verifier problem of test_counterexample, whose initial
\* values are all defaults, is in the initial state; some fluent is true and some false
InitialStateCopiedWitness ==
    /\ pc = "rv"
    /\ pid = "counterexample"
    /\ st = prob.init
    /\ last = NoAction
    /\ \E a, b \in GroundFluents(Problem) : a \in initial_values(Problem) /\ b \notin initial_values(Problem)

-----------------------------------------------------------------------------
(* DuativeActionRobustnessVerifier: the verifier for durative actions.  Its
   output is a temporal problem: a condition has an interval ("start", "end",
   "open" for (start, end), "closed" for [start, end]) and an effect a timing
   ("start" or "end"). *)

Cond(interval, fact) == [interval |-> interval, fact |-> fact]
TEff(timing, atom, val) == [timing |-> timing, atom |-> atom, val |-> val]

\* a durative action with its conditions, waitfor conditions and effects
TimedAction(name, agent, conditions, conditions_wait, effects) ==
    [name |-> name, agent |-> agent, conditions |-> conditions,
     conditions_wait |-> conditions_wait, effects |-> effects, duration |-> "fixed"]

(* r1's hold needs p all along (an invariant), r2's clr deletes p when it starts.
   Every action has a condition at start, and an action with a deleting effect
   at start has a condition at end, as the durative arrive and drive of
   test_social_law.py have. *)
InvariantProblem ==
    [agents |-> <<r1, r2>>,
     fluents |-> <<fp, fq, fd1, fd2>>,
     actions |-> <<
        TimedAction(<<"h", "o", "l", "d">>, r1,
                    <<Cond("start", Pos(fq)), Cond("open", Pos(fp))>>, <<>>,
                    <<TEff("end", fd1, TRUE)>>),
        TimedAction(<<"c", "l", "r">>, r2,
                    <<Cond("start", Pos(fq)), Cond("end", Pos(fq))>>, <<>>,
                    <<TEff("start", fp, FALSE), TEff("end", fd2, TRUE)>>)>>,
     init |-> {fp, fq},
     goals |-> {Pos(fd1), Pos(fd2)}]

\* r1's go waits for p from start to end, like drive with use_waiting; r2's take uses p up
DurativeWaitProblem ==
    [agents |-> <<r1, r2>>,
     fluents |-> <<fp, fq, fd1, fd2>>,
     actions |-> <<
        TimedAction(<<"g", "o">>, r1,
                    <<Cond("start", Pos(fq))>>, <<Cond("closed", Pos(fp))>>,
                    <<TEff("end", fd1, TRUE)>>),
        TimedAction(<<"t", "a", "k", "e">>, r2,
                    <<Cond("start", Pos(fp))>>, <<>>,
                    <<TEff("end", fp, FALSE), TEff("end", fd2, TRUE)>>)>>,
     init |-> {fp, fq},
     goals |-> {Pos(fd1), Pos(fd2)}]

DurPids == {"invariant", "durative_wait"}

DurProblem(id) == IF id = "invariant" THEN InvariantProblem ELSE DurativeWaitProblem

\* max_inv_count, the default
max_inv_count == 20

\* the facts of the conditions a test selects, in order
FactsWhere(conditions, intervals) ==
    LET Test(c) == c.interval \in intervals
        sel == SelectSeq(conditions, Test)
    IN [i \in DOMAIN sel |-> sel[i].fact]

\* get_conditions_at: the conditions that hold at start, inside, and at end
get_conditions_at(conditions) ==
    [start |-> FactsWhere(conditions, {"start", "closed"}),
     overall |-> FactsWhere(conditions, {"open", "closed"}),
     end |-> FactsWhere(conditions, {"end", "closed"})]

\* the effects of an action at a timing, in order
EffectsAt(action, timing) ==
    LET Test(e) == e.timing = timing IN SelectSeq(action.effects, Test)

get_waiting_version_dur(fact, agent) == [atom |-> <<"w", agent>> \o fact.atom, pos |-> fact.pos]

\* get_inv_count_version with compile_away_numeric: i-f(args, ic<val>)
get_inv_count_version(fact, val) == [atom |-> <<"i">> \o fact.atom \o <<"ic">> \o Str(val), pos |-> TRUE]

(* add_increase_inv_count_version, add_decrease_inv_count_version and
   add_condition_inv_count_zero: what each adds to the action.  Each of them
   returns in its first statement, so it adds nothing. *)
add_increase_inv_count_version(fact) == {}
add_decrease_inv_count_version(fact) == {}
add_condition_inv_count_zero(fact, timing, negate, val) == {}

(* DuativeActionRobustnessVerifier.create_action_copy: act from start to end,
   the local version of every condition and waitfor condition in its interval,
   the local effects at their timing *)
create_action_copy_dur(action, suffix, kind, idx) ==
    [name |-> action.name \o suffix,
     kind |-> kind,
     agent |-> action.agent.obj,
     orig |-> action.name,
     idx |-> idx,
     inst |-> FALSE,
     cond |-> {Cond("closed", Pos(act))}
              \cup {Cond(c.interval, get_local_version(c.fact, action.agent.obj))
                    : c \in Range(action.conditions) \cup Range(action.conditions_wait)},
     eff |-> {TEff(e.timing, get_local_version(Pos(e.atom), action.agent.obj).atom, e.val)
              : e \in Range(action.effects)}]

AddCond(a, conds) == [a EXCEPT !.cond = @ \cup conds]
AddTEff(a, effects) == [a EXCEPT !.eff = @ \cup effects]

\* the agents' objects
AgentObjs(problem) == {agent.obj : agent \in Range(problem.agents)}

\* the start conditions of an action and of its waitfor conditions: c_start + cw_start
StartConds(action) ==
    get_conditions_at(action.conditions).start \o get_conditions_at(action.conditions_wait).start

\* an over-all condition that a start effect of the action itself makes true
overall_condition_added_by_start_effect(action, fact) ==
    \E e \in Range(EffectsAt(action, "start")) : Pos(e.atom) = fact /\ e.val

\* Success version - affects globals same way as original
DurSuccessCopy(problem, action) ==
    LET A == action.agent.obj
        a_s == create_action_copy_dur(action, <<"_", "s">>, "s", 0)
    IN AddTEff(
         AddCond(a_s,
            {Cond("start", Neg(waiting(A)))}
            \cup {Cond(c.interval, get_global_version(c.fact))
                  : c \in Range(action.conditions) \cup Range(action.conditions_wait)}
            \cup UNION {IF e.val
                        THEN {Cond(e.timing, Not(get_waiting_version_dur(Pos(e.atom), obj)))
                              : obj \in AgentObjs(problem)}
                             \cup (IF e.timing = "end"
                                   THEN {Cond("closed", Not(get_waiting_version_dur(Pos(e.atom), obj)))
                                         : obj \in AgentObjs(problem)}
                                   ELSE {})
                        ELSE add_condition_inv_count_zero(Pos(e.atom), e.timing, FALSE,
                                                          IF e.timing = "start" THEN 0 ELSE 1)
                        : e \in Range(action.effects)}),
         {TEff(e.timing, get_global_version(Pos(e.atom)).atom, e.val) : e \in Range(action.effects)}
         \cup UNION {add_increase_inv_count_version(c.fact) \cup add_decrease_inv_count_version(c.fact)
                     : c \in {x \in Range(action.conditions) : x.interval \in {"open", "closed"}}})

(* Fail start version, one per condition at start.  The loop of the fail inv
   versions adds the global start conditions to a_fstart, the last of them. *)
DurFailStartCopy(problem, action, i) ==
    LET A == action.agent.obj
        ca == get_conditions_at(action.conditions)
        cw == get_conditions_at(action.conditions_wait)
        a_fstart == create_action_copy_dur(action, <<"_", "f", "_", "s", "t", "a", "r", "t", "_">> \o Str(i - 1),
                                           "f_start", i)
    IN AddTEff(
         AddCond(a_fstart,
            {Cond("start", get_global_version(c)) : c \in Range(cw.start)}
            \cup {Cond("start", Not(get_global_version(ca.start[i]))), Cond("start", Neg(waiting(A)))}
            \cup (IF i = Len(ca.start)
                     /\ \E fact \in Range(ca.overall) : ~overall_condition_added_by_start_effect(action, fact)
                  THEN {Cond("start", get_global_version(c)) : c \in Range(StartConds(action))}
                  ELSE {})),
         {TEff("start", failure, TRUE)})

\* what the copies that apply the action's start effects to the globals add for them
StartEffectConds(problem, action, intervals) ==
    UNION {IF e.val
           THEN {Cond(interval, Not(get_waiting_version_dur(Pos(e.atom), obj)))
                 : interval \in intervals, obj \in AgentObjs(problem)}
           ELSE add_condition_inv_count_zero(Pos(e.atom), "start", FALSE, 0)
           : e \in Range(EffectsAt(action, "start"))}

GlobalEffectsAt(action, timing) ==
    {TEff(timing, get_global_version(Pos(e.atom)).atom, e.val) : e \in Range(EffectsAt(action, timing))}

\* Fail inv version, one per over-all condition that no start effect of the action adds
DurFailInvCopy(problem, action, i) ==
    LET A == action.agent.obj
        ca == get_conditions_at(action.conditions)
        a_finv == create_action_copy_dur(action, <<"_", "f", "_", "i", "n", "v", "_">> \o Str(i - 1), "f_inv", i)
    IN AddTEff(
         AddCond(a_finv,
            {Cond("start", Not(get_global_version(ca.overall[i]))), Cond("start", Neg(waiting(A)))}
            \cup StartEffectConds(problem, action, {"start"})),
         GlobalEffectsAt(action, "start") \cup {TEff("start", failure, TRUE)})

(* Fail end version, one per condition at end.  The loop of the del inv start
   versions adds the global start conditions to a_fend, the last of them, which
   has them already. *)
DurFailEndCopy(problem, action, i) ==
    LET A == action.agent.obj
        ca == get_conditions_at(action.conditions)
        a_fend == create_action_copy_dur(action, <<"_", "f", "_", "e", "n", "d", "_">> \o Str(i - 1), "f_end", i)
    IN AddTEff(
         AddCond(a_fend,
            {Cond("start", get_global_version(c)) : c \in Range(StartConds(action))}
            \cup {Cond("open", get_global_version(c)) : c \in Range(ca.overall)}
            \cup {Cond("start", Neg(waiting(A))), Cond("end", Not(get_global_version(ca.end[i])))}
            \cup StartEffectConds(problem, action, {"open"})
            \cup {Cond("start", Not(get_waiting_version_dur(Pos(e.atom), obj)))
                  : e \in {x \in Range(EffectsAt(action, "end")) : x.val}, obj \in AgentObjs(problem)}),
         GlobalEffectsAt(action, "start") \cup {TEff("end", failure, TRUE)}
         \cup add_increase_inv_count_version(ca.end[i]))

\* Del inv start version, one per deleting effect at start (i is its place among the start effects)
DurDelInvStartCopy(problem, action, i) ==
    LET A == action.agent.obj
        effect == EffectsAt(action, "start")[i]
        a_finvstart == create_action_copy_dur(action,
                           <<"_", "f", "_", "i", "n", "v", "_", "s", "t", "a", "r", "t", "_">> \o Str(i - 1),
                           "f_inv_start", i)
    IN AddTEff(
         AddCond(a_finvstart,
            {Cond("start", Neg(waiting(A)))}
            \cup add_condition_inv_count_zero(Pos(effect.atom), "start", TRUE, 0)),
         {TEff("start", failure, TRUE)})

\* Del inv end version, one per deleting effect at end (i is its place among the end effects)
DurDelInvEndCopy(problem, action, i) ==
    LET A == action.agent.obj
        ca == get_conditions_at(action.conditions)
        effect == EffectsAt(action, "end")[i]
        a_finvend == create_action_copy_dur(action,
                         <<"_", "f", "_", "i", "n", "v", "_", "e", "n", "d", "_">> \o Str(i - 1),
                         "f_inv_end", i)
    IN AddTEff(
         AddCond(a_finvend,
            {Cond("start", Neg(waiting(A)))}
            \cup {Cond("start", get_global_version(c)) : c \in Range(StartConds(action))}
            \cup {Cond("open", get_global_version(c)) : c \in Range(ca.overall)}
            \cup {Cond("end", get_global_version(c)) : c \in Range(ca.end)}
            \cup add_condition_inv_count_zero(Pos(effect.atom), "end", TRUE, 0)
            \cup StartEffectConds(problem, action, {"start", "open"})),
         GlobalEffectsAt(action, "start") \cup GlobalEffectsAt(action, "end")
         \cup {TEff("start", failure, TRUE)}
         \cup UNION {add_increase_inv_count_version(c.fact)
                     : c \in {x \in Range(action.conditions) : x.interval \in {"open", "closed"}}})

(* a^w_x version - wait forever for x to be true, one per waitfor condition at
   start.  Its name ends in f.name, f the last of the problem's fluents. *)
DurWaitCopy(problem, action, i) ==
    LET A == action.agent.obj
        w_fact == get_conditions_at(action.conditions_wait).start[i]
        a_wx == create_action_copy_dur(action,
                    <<"_", "w", "x", "_">> \o problem.fluents[Len(problem.fluents)], "wx", i)
    IN AddTEff(
         AddCond(a_wx, {Cond("start", Neg(waiting(A))), Cond("start", Not(get_global_version(w_fact)))}),
         {TEff("start", failure, TRUE),
          TEff("start", waiting(A), TRUE),
          TEff("start", get_waiting_version_dur(w_fact, A).atom, TRUE)})

\* a_waiting version - dummy version while agent is waiting
DurWaitingCopy(problem, action) ==
    AddCond(create_action_copy_dur(action, <<"_", "w", "a", "i", "t", "i", "n", "g">>, "waiting", 0),
            {Cond("start", Pos(waiting(action.agent.obj)))})

\* end_s_<i>: instantaneous, named by the agent's place in problem.agents counted from 0
end_s_dur(problem, n) ==
    LET agent == problem.agents[n]
    IN [name |-> <<"e", "n", "d", "_", "s", "_">> \o Str(n - 1),
        kind |-> "end_s",
        agent |-> agent.obj,
        orig |-> <<>>,
        idx |-> 0,
        inst |-> TRUE,
        cond |-> {Cond("start", Neg(fin(agent.obj)))}
                 \cup {Cond("start", get_local_version(g, agent.obj)) : g \in Range(agent.goals)}
                 \cup {Cond("start", get_global_version(g)) : g \in Range(agent.goals)},
        eff |-> {TEff("start", fin(agent.obj), TRUE), TEff("start", act, FALSE)}]

\* end_f_<i>_<j>
end_f_dur(problem, n, j) ==
    LET agent == problem.agents[n]
    IN [name |-> <<"e", "n", "d", "_", "f", "_">> \o Str(n - 1) \o <<"_">> \o Str(j - 1),
        kind |-> "end_f",
        agent |-> agent.obj,
        orig |-> <<>>,
        idx |-> j,
        inst |-> TRUE,
        cond |-> {Cond("start", Not(get_global_version(agent.goals[j]))), Cond("start", Neg(fin(agent.obj)))}
                 \cup {Cond("start", get_local_version(g, agent.obj)) : g \in Range(agent.goals)},
        eff |-> {TEff("start", fin(agent.obj), TRUE), TEff("start", failure, TRUE), TEff("start", act, FALSE)}]

\* the actions of DuativeActionRobustnessVerifier.get_rewritten_problem
DurActions(problem) ==
    UNION {LET ca == get_conditions_at(action.conditions)
               cw == get_conditions_at(action.conditions_wait)
           IN {DurSuccessCopy(problem, action), DurWaitingCopy(problem, action)}
              \cup {DurFailStartCopy(problem, action, i) : i \in DOMAIN ca.start}
              \cup {DurFailInvCopy(problem, action, i)
                    : i \in {j \in DOMAIN ca.overall :
                               ~overall_condition_added_by_start_effect(action, ca.overall[j])}}
              \cup {DurFailEndCopy(problem, action, i) : i \in DOMAIN ca.end}
              \cup {DurDelInvStartCopy(problem, action, i)
                    : i \in {j \in DOMAIN EffectsAt(action, "start") : ~EffectsAt(action, "start")[j].val}}
              \cup {DurDelInvEndCopy(problem, action, i)
                    : i \in {j \in DOMAIN EffectsAt(action, "end") : ~EffectsAt(action, "end")[j].val}}
              \cup {DurWaitCopy(problem, action, i) : i \in DOMAIN cw.start}
           : action \in Range(problem.actions)}
    \cup {end_s_dur(problem, n) : n \in DOMAIN problem.agents}
    \cup UNION {{end_f_dur(problem, n, j) : j \in DOMAIN problem.agents[n].goals} : n \in DOMAIN problem.agents}

(* the initial state: the initial values copied to g- and l-; no value is set
   for an i- fluent, whose default is False, nor for w- and the flags but act *)
get_rewritten_problem_dur(problem) ==
    [actions |-> DurActions(problem),
     init |-> RVInit(problem),
     goal |-> RVGoal(problem)]

-----------------------------------------------------------------------------
(* Temporal plans of the durative verifier's problem: the planner starts and
   ends durative actions and applies instantaneous ones.  A condition on
   "start" or "closed" holds when the action starts, one on "end" or "closed"
   when it ends, and one on "open" or "closed" in every state in between. *)

CondsIn(a, intervals) == {c.fact : c \in {x \in a.cond : x.interval \in intervals}}

ApplyAt(a, timing, s) ==
    (s \ {e.atom : e \in {x \in a.eff : x.timing = timing /\ ~x.val}})
    \cup {e.atom : e \in {x \in a.eff : x.timing = timing /\ x.val}}

InvariantsHold(actions, s) ==
    \A b \in actions : \A f \in CondsIn(b, {"open", "closed"}) : Holds(f, s)

DurInit ==
    /\ pid \in DurPids
    /\ op = "none"
    /\ pc = "dur"
    /\ k = 0
    /\ prob = get_rewritten_problem_dur(DurProblem(pid))
    /\ st = prob.init
    /\ last = NoAction
    /\ scan = "none"
    /\ hist = NoHist
    /\ status = "none"
    /\ counter_example = "None"
    /\ ret = "none"
    /\ log = NoLog
    /\ plan = <<>>
    /\ pos = 0
    /\ transformer = "DuativeActionRobustnessVerifier"
    /\ new_problem = NoObject
    /\ calls = <<>>
    /\ running = {}
    /\ agents = <<>>
    /\ lists = <<>>

DurFrame == UNCHANGED <<pid, op, pc, k, prob, scan, hist, status, counter_example, ret, log, plan, pos,
                        transformer, new_problem, calls, agents, lists>>

StartAction ==
    /\ pc = "dur"
    /\ \E a \in prob.actions :
          /\ ~a.inst
          /\ a \notin running
          /\ \A f \in CondsIn(a, {"start", "closed"}) : Holds(f, st)
          /\ InvariantsHold(running \cup {a}, ApplyAt(a, "start", st))
          /\ st' = ApplyAt(a, "start", st)
          /\ running' = running \cup {a}
          /\ last' = a
    /\ DurFrame

EndAction ==
    /\ pc = "dur"
    /\ \E a \in running :
          /\ \A f \in CondsIn(a, {"end", "closed"}) : Holds(f, st)
          /\ InvariantsHold(running \ {a}, ApplyAt(a, "end", st))
          /\ st' = ApplyAt(a, "end", st)
          /\ running' = running \ {a}
          /\ last' = a
    /\ DurFrame

InstantAction ==
    /\ pc = "dur"
    /\ \E a \in prob.actions :
          /\ a.inst
          /\ \A f \in CondsIn(a, {"start"}) : Holds(f, st)
          /\ InvariantsHold(running, ApplyAt(a, "start", st))
          /\ st' = ApplyAt(a, "start", st)
          /\ last' = a
          /\ UNCHANGED running
    /\ DurFrame

DurNext == StartAction \/ EndAction \/ InstantAction

DurSpec == DurInit /\ [][DurNext]_vars

\* the values the invariant counter of a ground fluent has in a state
InvCount(s, atom) ==
    {n \in 0..(max_inv_count - 1) : Holds(get_inv_count_version(Pos(atom), n), s)}

\* the running success copies that have the g- fact of a ground fluent as an over-all condition
Overlapping(atom) ==
    {a \in running : a.kind = "s"
                     /\ get_global_version(Pos(atom)) \in CondsIn(a, {"open", "closed"})}

\* C33: while success copies with f as an over-all condition are running, the
\* invariant counter of f has a positive value (it was increased when they started).
InvariantCounterCounts ==
    pc = "dur" =>
        \A atom \in Range(DurProblem(pid).fluents) :
            Overlapping(atom) # {} => \E n \in InvCount(st, atom) : n >= 1

-----------------------------------------------------------------------------
(* What stays as it is in a run of the instantaneous verifier's problem *)

\* the g- fact of the ground fluent a marker w-f stands for
MarkedGlobal(marker) == <<"g">> \o Tail(marker)

\* C34: a marker w-f is set only while g-f is false and never cleared, and no
\* action makes g-f true while w-f is set: in every state w-f implies not g-f.
MarkerImpliesGlobalFalse ==
    [][(pc = "rv" /\ pc' = "rv") =>
          /\ \A w \in Markers(st) : MarkedGlobal(w) \notin st
          /\ \A w \in Markers(st') : MarkedGlobal(w) \notin st'
          /\ Markers(st) \subseteq Markers(st')
          /\ \A w \in Markers(st') \ Markers(st) : last'.kind = "w" /\ MarkedGlobal(w) \notin st]_vars

\* a fact is marked, and a success copy that would make it true is held back by
\* the marker alone
MarkerImpliesGlobalFalseWitness ==
    /\ pc = "rv"
    /\ last.kind \in {"s", "pw"}
    /\ \E a \in prob.actions :
          /\ a.kind = "s"
          /\ \E e \in a.eff : e.val /\ e.atom[1] = "g" /\ (<<"w">> \o Tail(e.atom)) \in st
          /\ \A f \in a.pre : f.atom[1] # "w" => Holds(f, st)

\* the agents whose waiting flag is set
WaitingAgents(s) == {x \in s : x[1] = "waiting"}

\* C35: once crash holds, no success, fail or wait copy is applicable, and the
\* g- facts, the w- markers and the waiting flags do not change any more; a
\* fail copy is applied only while crash is false and sets it, so a run has at
\* most one fail copy and no wait copy after it.
CrashFreezesGlobals ==
    [][(pc = "rv" /\ pc' = "rv") =>
          /\ (crash \in st) =>
                /\ \A a \in prob.actions : a.kind \in {"s", "f", "w"} => ~Applicable(a, st)
                /\ Glob(st') = Glob(st)
                /\ Markers(st') = Markers(st)
                /\ WaitingAgents(st') = WaitingAgents(st)
                /\ RvApplied => last'.kind \notin {"s", "f", "w"}
          /\ (RvApplied /\ last'.kind = "f") => (crash \notin st /\ crash \in st')]_vars

\* after the crash a phantom copy has been applied, in a state where a success
\* copy is held back by crash alone
CrashFreezesGlobalsWitness ==
    /\ pc = "rv"
    /\ crash \in st
    /\ last.kind = "pc"
    /\ hist.first = "f"
    /\ \E a \in prob.actions :
          /\ a.kind = "s"
          /\ \A f \in a.pre : f # Neg(crash) => Holds(f, st)
          /\ \E e \in a.eff : e.atom[1] = "g" /\ (e.atom \in st) # e.val

\* the fin and failure facts of a state, the only ones an end action changes besides act
EndFacts(s) == {x \in s : x[1] \in {"fin", "failure"}}

\* C36: an end action clears act, and nothing sets it again; while act is false
\* no copy of an action is applicable, the g-, l- and w- facts, crash and the
\* waiting flags do not change, and only end actions are applied: in a run all
\* the copies of actions come before all the end actions.
EndActionsComeLast ==
    [][(pc = "rv" /\ pc' = "rv") =>
          /\ (RvApplied /\ last'.kind \in {"end_s", "end_f"}) => act \notin st'
          /\ (act \notin st) <=> (\E n \in DOMAIN Problem.agents : fin(Problem.agents[n].obj) \in st)
          /\ (act \notin st) =>
                /\ act \notin st'
                /\ \A a \in prob.actions :
                      a.kind \in {"s", "f", "w", "pc", "pw"} => ~Applicable(a, st)
                /\ st' \ EndFacts(st') = st \ EndFacts(st)
                /\ RvApplied => last'.kind \in {"end_s", "end_f"}]_vars

\* two agents have ended one after the other, and a copy of an action is held
\* back by act alone
EndActionsComeLastWitness ==
    /\ pc = "rv"
    /\ act \notin st
    /\ last.kind \in {"end_s", "end_f"}
    /\ \E n \in DOMAIN Problem.agents :
          Problem.agents[n].obj # last.agent /\ fin(Problem.agents[n].obj) \in st
    /\ \E a \in prob.actions :
          /\ a.kind \in {"s", "f", "w", "pc", "pw"}
          /\ \A f \in a.pre : f # Pos(act) => Holds(f, st)

\* C37: waiting(A) is never cleared; while it holds, no success, fail or wait
\* copy of an action of A is applicable, the copies of A's actions that are
\* applied are phantom copies (_pw, or _pc when crash holds), and no action
\* of A changes a g- fact or a w- marker.
WaitingIsPermanent ==
    [][(pc = "rv" /\ pc' = "rv") =>
          \A n \in DOMAIN Problem.agents :
             LET A == Problem.agents[n].obj
             IN (waiting(A) \in st) =>
                   /\ waiting(A) \in st'
                   /\ \A a \in prob.actions :
                         (a.agent = A /\ a.kind \in {"s", "f", "w"}) => ~Applicable(a, st)
                   /\ (RvApplied /\ last'.agent = A) =>
                         /\ last'.kind \in {"pw", "pc", "end_s", "end_f"}
                         /\ (last'.kind = "pc") => crash \in st
                         /\ Glob(st') = Glob(st)
                         /\ Markers(st') = Markers(st)]_vars

\* an agent that waits has applied a phantom copy after another agent's crash;
\* but for its waiting and the crash, a success copy of one of its actions
\* would be applicable
WaitingIsPermanentWitness ==
    /\ pc = "rv"
    /\ last.kind = "pc"
    /\ waiting(last.agent) \in st
    /\ \E a \in prob.actions :
          /\ a.kind = "s"
          /\ a.agent = last.agent
          /\ \A f \in a.pre : f \notin {Neg(waiting(last.agent)), Neg(crash)} => Holds(f, st)

-----------------------------------------------------------------------------
(* Runs of the single-agent projection *)

\* the active-agent facts of a state
ActiveAgents(s) == {x \in s : x[1] = "active-agent"}

\* C38: in every state of a run of the projection for agent A, active-agent
\* holds of A's object and of no other; no action changes it, and an action is
\* applicable only if its agent is A's object.
ActiveAgentIsProjectedAgent ==
    [][(pc = "sap" /\ pc' = "sap") =>
          LET A == Problem.agents[k].obj
          IN /\ ActiveAgents(st) = {active_agent(A)}
             /\ ActiveAgents(st') = ActiveAgents(st) \/ k' # k
             /\ \A a \in prob.actions :
                   /\ \A e \in a.eff : e.atom[1] # "active-agent"
                   /\ Applicable(a, st) => a.agent = A]_vars

\* the planner has applied an action of the projection, which also holds an
\* action of another agent that only active-agent keeps from being applicable
ActiveAgentIsProjectedAgentWitness ==
    /\ pc = "sap"
    /\ last.kind = "sap"
    /\ last.agent = Problem.agents[k].obj
    /\ \E a \in prob.actions :
          /\ a.agent # Problem.agents[k].obj
          /\ \A f \in a.pre : f # Pos(active_agent(a.agent)) => Holds(f, st)

-----------------------------------------------------------------------------
(* Agents and their goal lists.  An agent's _goals refers to a list object;
   a default argument is one list object, made when the class is defined. *)

MaxAgents == 3
MaxGoals == 2

\* the list a constructor's goals parameter refers to when no argument is given
DefaultGoals(class) == IF class = "Agent" THEN "Agent.__init__.goals" ELSE "ExistingObjectAgent.__init__.goals"

\* the expressions add_goal is called with
TRUE_ == <<"TRUE">>
GoalExps == {TRUE_, f1}

\* the goals of the n-th agent
Goals(ags, ls, n) == ls[ags[n].goals]

AgentInit ==
    /\ pid = "none"
    /\ op = "none"
    /\ pc = "agents"
    /\ k = 0
    /\ prob = NoProblem
    /\ st = {}
    /\ last = NoAction
    /\ scan = "none"
    /\ hist = NoHist
    /\ status = "none"
    /\ counter_example = "None"
    /\ ret = "none"
    /\ log = NoLog
    /\ plan = <<>>
    /\ pos = 0
    /\ transformer = "none"
    /\ new_problem = NoObject
    /\ calls = <<>>
    /\ running = {}
    /\ agents = <<>>
    /\ lists = [r \in {DefaultGoals("Agent"), DefaultGoals("ExistingObjectAgent")} |-> <<>>]

AgentFrame == UNCHANGED <<pid, pc, prob, st, last, scan, hist, status, counter_example, ret, log, plan, pos,
                          transformer, new_problem, calls, running>>

\* Agent(name, env) or ExistingObjectAgent(obj, env): self._goals = goals, the default list
New_default ==
    /\ pc = "agents"
    /\ Len(agents) < MaxAgents
    /\ \E class \in {"Agent", "ExistingObjectAgent"} :
          /\ agents' = Append(agents, [class |-> class, goals |-> DefaultGoals(class)])
          /\ op' = class
    /\ k' = Len(agents')
    /\ UNCHANGED lists
    /\ AgentFrame

\* Agent(name, env, []) or ExistingObjectAgent(obj, env, []): self._goals = goals, a new list
New_explicit ==
    /\ pc = "agents"
    /\ Len(agents) < MaxAgents
    /\ \E class \in {"Agent", "ExistingObjectAgent"} :
          LET ref == "list" \o Str(Len(agents) + 1)[1]
          IN /\ agents' = Append(agents, [class |-> class, goals |-> ref])
             /\ lists' = [r \in DOMAIN lists \cup {ref} |-> IF r = ref THEN <<>> ELSE lists[r]]
             /\ op' = class
    /\ k' = Len(agents')
    /\ AgentFrame

\* Agent.add_goal: appends to self._goals unless the goal is the constant TRUE
add_goal ==
    /\ pc = "agents"
    /\ \E n \in DOMAIN agents, goal \in GoalExps :
          /\ Len(Goals(agents, lists, n)) < MaxGoals
          /\ k' = n
          /\ lists' = IF goal # TRUE_
                      THEN [lists EXCEPT ![agents[n].goals] = Append(@, goal)]
                      ELSE lists
    /\ op' = "add_goal"
    /\ UNCHANGED agents
    /\ AgentFrame

AgentNext == New_default \/ New_explicit \/ add_goal

AgentSpec == AgentInit /\ [][AgentNext]_vars

\* C39: add_goal on one agent leaves the goals of every other agent as they were.
AddGoalChangesOnlyItsAgent ==
    [][(pc = "agents" /\ op' = "add_goal") =>
          \A n \in DOMAIN agents :
              n # k' => Goals(agents', lists', n) = Goals(agents, lists, n)]_vars

====
